---- MODULE Spec2Model ----
(***************************************************************************)
(* A model of the FIM catalog builder (src/build_catalog.py and its        *)
(* variant src/fim_viz/build_catalog.py): the per-object normalisation     *)
(* (normalize_record and the helpers it calls) and the batch run of main   *)
(* (listing, the per-key loop with id de-duplication, the geometry stage,  *)
(* the local writes and the two uploads).                                  *)
(*                                                                         *)
(* Python strings are sequences of one-character strings, so that          *)
(* splitting, prefix tests, regular-expression matches and concatenation   *)
(* are computed as the code computes them.  JSON values are tagged         *)
(* records [t |-> type, v |-> payload].  A Python call that may raise      *)
(* returns [exc |-> exception name or "none", val |-> value].              *)
(***************************************************************************)
EXTENDS Integers, Sequences, FiniteSets, TLC

VARIABLES
    n_key,        \* normalize_record: the meta_key argument
    n_meta,       \* normalize_record: the parsed metadata argument
    n_out,        \* normalize_record: what the call returned or raised
    n_pc,         \* "call" before the call, "done" after it
    v_out,        \* the viewer's build_catalog: the centroid of n_meta or what it raised
    v_pc,         \* "call" before the viewer has processed n_meta, "done" after it
    l_doc,        \* how the text of the object was composed (history, not read by the code)
    l_raw,        \* the text of the object as fetched
    l_out,        \* what load_with_context returned or raised on l_raw
    l_rec,        \* what normalize_record returned or raised on the loaded value
    l_pc,         \* "call" before the object is loaded, "done" after it
    q_out,        \* what lenient_json_load returned or raised on l_raw
    q_pc,         \* "call" before lenient_json_load is applied, "done" after it
    q_steps,      \* lenient_json_load: the text after each of its repair steps
    t_args,       \* fim_tiles: the parsed command line
    t_env,        \* fim_tiles: the binaries in PATH, the tiles directory, the input
    t_merge,      \* fim_tiles: the data frame before and after the catalog merge
    t_geojson,    \* fim_tiles: the rows of fimextent.geojson, <<>> while not written
    t_cmd,        \* fim_tiles: the attribute flags of the tippecanoe command
    t_calls,      \* fim_tiles: the subprocesses run so far
    t_tiles,      \* fim_tiles: the tiles directory: "absent", "old" or "new"
    t_uploaded,   \* fim_tiles: whether tiles were uploaded
    t_exit,       \* fim_tiles: the exit status, -1 while running
    t_pc,         \* fim_tiles: "prepare", "build", "extract", "upload", "cleanup", "exited"
    skip_geometry,\* args.skip_geometry
    no_upload,    \* args.no_upload
    fetched,      \* the objects get_object has returned so far, in order
    meta_keys,    \* main: the keys list_meta_keys returned
    idx,          \* main: the 1-based position of the loop in meta_keys
    core_rows,    \* main: the records
    ext_rows,     \* main: the spatial features
    errors,       \* main: the (key, repr(e)) pairs
    seen_ids,     \* main: base id -> number of times seen
    geom,         \* main: the geometry of the key being processed
    out_gpq,      \* the local extract file: "unknown", "none", "stale" or "this"
    pub_core,     \* the catalog at the published key: "prev" or "this" run's
    pub_gpq,      \* the extract at the published key: "prev", "stale" or "this"
    exit_code,    \* the process exit status, -1 while running
    pc            \* main: "list", "loop", "geom", "write_core", "write_gpq",
                  \*       "upload_core", "upload_gpq", "done", "aborted"

normVars == <<n_key, n_meta, n_out, n_pc, v_out, v_pc>>
mainVars == <<skip_geometry, no_upload, fetched, meta_keys, idx, core_rows, ext_rows,
              errors, seen_ids, geom, out_gpq, pub_core, pub_gpq, exit_code, pc>>
loadVars == <<l_doc, l_raw, l_out, l_rec, l_pc, q_out, q_pc, q_steps>>
tileVars == <<t_args, t_env, t_merge, t_geojson, t_cmd, t_calls, t_tiles, t_uploaded, t_exit, t_pc>>
vars == <<normVars, mainVars, loadVars, tileVars>>

----------------------------------------------------------------------------
(* Characters and strings *)

UpperChars == <<"A","B","C","D","E","F","G","H","I","J","K","L","M",
                "N","O","P","Q","R","S","T","U","V","W","X","Y","Z">>
LowerChars == <<"a","b","c","d","e","f","g","h","i","j","k","l","m",
                "n","o","p","q","r","s","t","u","v","w","x","y","z">>
DigitChars == <<"0","1","2","3","4","5","6","7","8","9">>

IsDigit(c) == \E i \in 1..10 : DigitChars[i] = c
IsAlpha(c) == \E i \in 1..26 : UpperChars[i] = c \/ LowerChars[i] = c
\* a regular-expression word character: [A-Za-z0-9_]
IsWord(c)  == IsDigit(c) \/ IsAlpha(c) \/ c = "_"
\* regular-expression \s and str.strip() whitespace
IsSpace(c) == c \in {" ", "\t", "\n", "\r"}

DigitVal(c) == (CHOOSE i \in 1..10 : DigitChars[i] = c) - 1

\* str.lower() of one character
LowerChar(c) ==
    IF \E i \in 1..26 : UpperChars[i] = c
    THEN LowerChars[CHOOSE i \in 1..26 : UpperChars[i] = c]
    ELSE c

\* str.lower()
Lower(s) == [i \in 1..Len(s) |-> LowerChar(s[i])]

\* str.startswith(p)
StartsWith(s, p) == Len(s) >= Len(p) /\ SubSeq(s, 1, Len(p)) = p

\* s[:n]
Truncate(s, n) == IF Len(s) <= n THEN s ELSE SubSeq(s, 1, n)

\* str.strip()
RECURSIVE LStrip(_)
LStrip(s) == IF s # <<>> /\ IsSpace(Head(s)) THEN LStrip(Tail(s)) ELSE s
RECURSIVE RStrip(_)
RStrip(s) ==
    IF s # <<>> /\ IsSpace(s[Len(s)]) THEN RStrip(SubSeq(s, 1, Len(s) - 1)) ELSE s
Strip(s) == RStrip(LStrip(s))

\* the index of the last occurrence of character c in s, 0 when there is none
\* (str.rfind(c) + 1)
RFind(s, c) ==
    IF \E i \in 1..Len(s) : s[i] = c
    THEN CHOOSE i \in 1..Len(s) : s[i] = c /\ \A j \in (i+1)..Len(s) : s[j] # c
    ELSE 0

\* str.split("/"): the segments between separators (empty segments kept)
RECURSIVE Split(_, _)
Split(s, sep) ==
    IF \E i \in 1..Len(s) : s[i] = sep
    THEN LET i == CHOOSE k \in 1..Len(s) : s[k] = sep /\ \A j \in 1..(k-1) : s[j] # sep
         IN  <<SubSeq(s, 1, i - 1)>> \o Split(SubSeq(s, i + 1, Len(s)), sep)
    ELSE <<s>>

\* sep.join(parts)
RECURSIVE Join(_, _)
Join(parts, sep) ==
    IF parts = <<>> THEN <<>>
    ELSE IF Len(parts) = 1 THEN parts[1]
    ELSE parts[1] \o sep \o Join(Tail(parts), sep)

\* str(n) / json.dumps(n) of an integer
RECURSIVE NatStr(_)
NatStr(n) == IF n < 10 THEN <<DigitChars[n + 1]>>
             ELSE NatStr(n \div 10) \o <<DigitChars[(n % 10) + 1]>>
IntStr(n) == IF n < 0 THEN <<"-">> \o NatStr(-n) ELSE NatStr(n)

\* int(s) of a string of decimal digits
RECURSIVE DigitsVal(_)
DigitsVal(s) == IF s = <<>> THEN 0
                ELSE 10 * DigitsVal(SubSeq(s, 1, Len(s) - 1)) + DigitVal(s[Len(s)])

----------------------------------------------------------------------------
(* JSON / Python values *)

Null       == [t |-> "null", v |-> 0]
JStr(s)    == [t |-> "str",  v |-> s]
JInt(n)    == [t |-> "int",  v |-> n]
JBool(b)   == [t |-> "bool", v |-> b]
JList(l)   == [t |-> "list", v |-> l]
JDict(d)   == [t |-> "dict", v |-> d]
\* a Python float, held exactly as a whole number of halves (v = 2 * value)
JFloat(h)  == [t |-> "float", v |-> h]

IsNone(x) == x.t = "null"
IsStr(x)  == x.t = "str"

\* Python truth value: bool(x)
Truthy(x) ==
    CASE x.t = "null" -> FALSE
      [] x.t = "str"  -> x.v # <<>>
      [] x.t = "int"  -> x.v # 0
      [] x.t = "float" -> x.v # 0
      [] x.t = "bool" -> x.v
      [] x.t = "list" -> x.v # <<>>
      [] x.t = "dict" -> DOMAIN x.v # {}

\* a or b
PyOr(a, b) == IF Truthy(a) THEN a ELSE b

\* repr(x) of a scalar: strings in single quotes
PyReprScalar(x) ==
    CASE x.t = "null" -> <<"N","o","n","e">>
      [] x.t = "str"  -> <<"'">> \o x.v \o <<"'">>
      [] x.t = "int"  -> IntStr(x.v)
      [] x.t = "bool" -> IF x.v THEN <<"T","r","u","e">> ELSE <<"F","a","l","s","e">>

\* str(x) and f"{x}": a string is itself, a list is "[" repr, ... "]"
PyStr(x) ==
    CASE x.t = "str"  -> x.v
      [] x.t = "list" ->
            <<"[">> \o Join([i \in 1..Len(x.v) |-> PyReprScalar(x.v[i])], <<",", " ">>)
                    \o <<"]">>
      [] OTHER        -> PyReprScalar(x)

\* json.dumps(x, ensure_ascii=False) of a scalar
JsonDumpsScalar(x) ==
    CASE x.t = "null" -> <<"n","u","l","l">>
      [] x.t = "str"  -> <<"\"">> \o x.v \o <<"\"">>
      [] x.t = "int"  -> IntStr(x.v)
      [] x.t = "bool" -> IF x.v THEN <<"t","r","u","e">> ELSE <<"f","a","l","s","e">>

\* json.dumps(x, ensure_ascii=False): a list is "[" item ", " item "]"
JsonDumps(x) ==
    IF x.t = "list"
    THEN <<"[">> \o Join([i \in 1..Len(x.v) |-> JsonDumpsScalar(x.v[i])], <<",", " ">>)
                 \o <<"]">>
    ELSE JsonDumpsScalar(x)

----------------------------------------------------------------------------
(* Program constants (src/build_catalog.py lines 17-22) *)

DEFAULT_BUCKET == <<"s", "d", "m", "l", "a", "b">>
MAX_STR_LEN == 2000

Unknown_Tier == <<"U", "n", "k", "n", "o", "w", "n", "_", "T", "i", "e", "r">>
Unknown_Site == <<"U", "n", "k", "n", "o", "w", "n", "_", "S", "i", "t", "e">>
Tier_4       == <<"T", "i", "e", "r", "_", "4">>

----------------------------------------------------------------------------
(* Helpers of normalize_record *)

\* s3_http_url: f"https://{bucket}.s3.amazonaws.com/{key}"
s3_http_url(bucket, key) ==
    <<"h", "t", "t", "p", "s", ":", "/", "/">> \o bucket
    \o <<".", "s", "3", ".", "a", "m", "a", "z", "o", "n", "a", "w", "s", ".", "c", "o", "m", "/">>
    \o key

\* _ymd_re = (?<!\d)(\d{8})(?!\d) matches at position i of s
YmdMatchAt(s, i) ==
    /\ i + 7 <= Len(s)
    /\ \A k \in i..(i + 7) : IsDigit(s[k])
    /\ (i = 1 \/ ~IsDigit(s[i - 1]))
    /\ (i + 8 > Len(s) \/ ~IsDigit(s[i + 8]))

\* _ymd_re.search(s): the first match's group(1), <<>> when there is no match
ymd_search(s) ==
    IF \E i \in 1..Len(s) : YmdMatchAt(s, i)
    THEN LET i == CHOOSE k \in 1..Len(s) :
                      YmdMatchAt(s, k) /\ \A j \in 1..(k - 1) : ~YmdMatchAt(s, j)
         IN  SubSeq(s, i, i + 7)
    ELSE <<>>

IsLeap(y) == y % 4 = 0 /\ (y % 100 # 0 \/ y % 400 = 0)
DaysInMonth(y, m) ==
    IF m = 2 THEN (IF IsLeap(y) THEN 29 ELSE 28)
    ELSE IF m \in {4, 6, 9, 11} THEN 30 ELSE 31

\* dt.datetime.strptime(d8, "%Y%m%d").date().isoformat() of eight digits:
\* %m matches 01..12 and %d matches 01..31 when all eight digits are to be
\* consumed, and the date must exist (year >= 1); otherwise ValueError.
strptime_iso(d8) ==
    LET y == DigitsVal(SubSeq(d8, 1, 4))
        m == DigitsVal(SubSeq(d8, 5, 6))
        d == DigitsVal(SubSeq(d8, 7, 8))
    IN  IF y >= 1 /\ m \in 1..12 /\ d >= 1 /\ d <= DaysInMonth(y, m)
        THEN [exc |-> "none",
              val |-> SubSeq(d8, 1, 4) \o <<"-">> \o SubSeq(d8, 5, 6) \o <<"-">>
                      \o SubSeq(d8, 7, 8)]
        ELSE [exc |-> "ValueError", val |-> <<>>]

\* the string the two extractors search: text itself, or json.dumps(text)
SearchText(text) == IF IsStr(text) THEN text.v ELSE JsonDumps(text)

\* extract_ymd_iso
extract_ymd_iso(text) ==
    IF IsNone(text) THEN Null
    ELSE LET m == ymd_search(SearchText(text))
         IN  IF m = <<>> THEN Null
             ELSE LET r == strptime_iso(m)
                  IN  IF r.exc = "none" THEN JStr(r.val) ELSE Null

\* (?<!\d)(\d{2,4})(?!\d) matches at position i of s with n digits
RpMatchAt(s, i, n) ==
    /\ i + n - 1 <= Len(s)
    /\ \A k \in i..(i + n - 1) : IsDigit(s[k])
    /\ (i = 1 \/ ~IsDigit(s[i - 1]))
    /\ (i + n > Len(s) \/ ~IsDigit(s[i + n]))

\* extract_return_period
extract_return_period(text) ==
    IF IsNone(text) THEN Null
    ELSE LET s == SearchText(text)
         IN  IF ymd_search(s) # <<>> THEN Null
             ELSE IF \E i \in 1..Len(s), n \in 2..4 : RpMatchAt(s, i, n)
             THEN LET i == CHOOSE k \in 1..Len(s) :
                              /\ \E n \in 2..4 : RpMatchAt(s, k, n)
                              /\ \A j \in 1..(k - 1) : \A n \in 2..4 : ~RpMatchAt(s, j, n)
                      n == CHOOSE k \in 2..4 : RpMatchAt(s, i, k)
                  IN  JInt(DigitsVal(SubSeq(s, i, i + n - 1)))
             ELSE Null

\* coerce_list
coerce_list(x) ==
    IF IsNone(x) THEN <<>>
    ELSE IF x.t = "list"
    THEN [i \in 1..Len(x.v) |-> Truncate(PyStr(x.v[i]), MAX_STR_LEN)]
    ELSE <<Truncate(PyStr(x), MAX_STR_LEN)>>

\* n in d and d[n] is not None
Present(d, n) == n \in DOMAIN d.v /\ ~IsNone(d.v[n])

\* dict.get(n)
DictGet(d, n) == IF n \in DOMAIN d.v THEN d.v[n] ELSE Null

\* safe_get(d, *names, maxlen): names is the sequence of aliases
safe_get_SkipEmpty(d, names, maxlen) ==
    IF \E i \in 1..Len(names) : Present(d, names[i]) /\ Truthy(d.v[names[i]])
    THEN LET i == CHOOSE k \in 1..Len(names) :
                      /\ Present(d, names[k]) /\ Truthy(d.v[names[k]])
                      /\ \A j \in 1..(k - 1) : ~(Present(d, names[j]) /\ Truthy(d.v[names[j]]))
             v == d.v[names[i]]
         IN  IF IsStr(v) THEN JStr(Truncate(v.v, maxlen)) ELSE v
    ELSE Null
safe_get(d, names, maxlen) ==
    IF \E i \in 1..Len(names) : Present(d, names[i])
    THEN LET i == CHOOSE k \in 1..Len(names) :
                      Present(d, names[k]) /\ \A j \in 1..(k - 1) : ~Present(d, names[j])
             v == d.v[names[i]]
         IN  IF IsStr(v) THEN JStr(Truncate(v.v, maxlen)) ELSE v
    ELSE Null

\* the text of a decimal integer with an optional sign, as float() reads it
\* after stripping white space
IsIntText(s) ==
    LET u == Strip(s)
        d == IF u # <<>> /\ u[1] \in {"+", "-"} THEN Tail(u) ELSE u
    IN  d # <<>> /\ \A k \in 1..Len(d) : IsDigit(d[k])

IntTextVal(s) ==
    LET u == Strip(s)
    IN  IF u[1] = "-" THEN 0 - DigitsVal(Tail(u))
        ELSE IF u[1] = "+" THEN DigitsVal(Tail(u)) ELSE DigitsVal(u)

\* float(x): the value in halves, TypeError for None, a list or a dict,
\* ValueError for a string that is no number
py_float(x) ==
    CASE x.t = "int"   -> [exc |-> "none", val |-> 2 * x.v]
      [] x.t = "float" -> [exc |-> "none", val |-> x.v]
      [] x.t = "bool"  -> [exc |-> "none", val |-> IF x.v THEN 2 ELSE 0]
      [] x.t = "str"   -> IF IsIntText(x.v)
                          THEN [exc |-> "none", val |-> 2 * IntTextVal(x.v)]
                          ELSE [exc |-> "ValueError", val |-> 0]
      [] OTHER         -> [exc |-> "TypeError", val |-> 0]

CentroidKey == "Location of the centroid of the flood map"
ExtentKeys == <<"xmin", "ymin", "xmax", "ymax">>

\* (float(a) + float(b)) / 2.0 on values held in halves
midpoint(a, b) == (a + b) \div 2

\* the extent branch of centroid_from_meta, inside its try: ex.get raises
\* AttributeError when ex is no dict, float raises on what is no number
extent_midpoint(ex) ==
    IF ex.t # "dict" THEN [exc |-> "AttributeError", lon |-> 0, lat |-> 0, set |-> FALSE]
    ELSE LET f == [k \in 1..4 |-> py_float(DictGet(ex, ExtentKeys[k]))]
         IN  IF \E k \in 1..4 : IsNone(DictGet(ex, ExtentKeys[k]))
             THEN [exc |-> "none", lon |-> 0, lat |-> 0, set |-> FALSE]
             ELSE IF \E k \in 1..4 : f[k].exc # "none"
             THEN [exc |-> f[CHOOSE k \in 1..4 : f[k].exc # "none"].exc,
                   lon |-> 0, lat |-> 0, set |-> FALSE]
             ELSE [exc |-> "none", lon |-> midpoint(f[1].val, f[3].val),
                   lat |-> midpoint(f[2].val, f[4].val), set |-> TRUE]

\* the explicit [lon, lat] branch: the pair, or set = FALSE when the field is
\* no list of two or more or a conversion raised (the handler passes)
explicit_pair(c) ==
    IF c.t = "list" /\ Len(c.v) >= 2
          /\ py_float(c.v[1]).exc = "none" /\ py_float(c.v[2]).exc = "none"
    THEN [lon |-> py_float(c.v[1]).val, lat |-> py_float(c.v[2]).val, set |-> TRUE]
    ELSE [lon |-> 0, lat |-> 0, set |-> FALSE]

\* centroid_from_meta(meta): (lon, lat) in halves; every exception of the
\* extent branch is caught and gives (0.0, 0.0)
centroid_from_meta(meta) ==
    LET c  == explicit_pair(DictGet(meta, CentroidKey))
        ex == extent_midpoint(PyOr(DictGet(meta, "Extent"), JDict(<<>>)))
    IN  IF c.set THEN <<c.lon, c.lat>>
        ELSE IF ex.exc = "none" /\ ex.set THEN <<ex.lon, ex.lat>>
        ELSE <<0, 0>>

\* the centroid of the viewer's catalog (src/utilis/s3_catalog.py, build_catalog):
\* the same preference order, but the four ex.get calls stand before the try,
\* so an Extent that is no dict raises AttributeError out of build_catalog
s3_catalog_centroid(meta) ==
    IF meta.t # "dict" THEN [exc |-> "AttributeError", lon |-> 0, lat |-> 0]
    ELSE
    LET c  == explicit_pair(PyOr(DictGet(meta, CentroidKey), JList(<<>>)))
        ex == extent_midpoint(PyOr(DictGet(meta, "Extent"), JDict(<<>>)))
    IN  IF c.set THEN [exc |-> "none", lon |-> c.lon, lat |-> c.lat]
        ELSE IF ex.exc = "AttributeError" THEN [exc |-> "AttributeError", lon |-> 0, lat |-> 0]
        ELSE IF ex.exc = "none" /\ ex.set THEN [exc |-> "none", lon |-> ex.lon, lat |-> ex.lat]
        ELSE [exc |-> "none", lon |-> 0, lat |-> 0]

\* re.match(r'(?i)\s*tier[_\s-]*(\d)\b', s): group(1), <<>> when there is no match
RECURSIVE SkipWhile(_, _, _)
SkipWhile(s, i, cls) ==
    IF i <= Len(s) /\ s[i] \in cls THEN SkipWhile(s, i + 1, cls) ELSE i
TierSepChars == {"_", "-", " ", "\t", "\n", "\r"}
tier_match(s) ==
    LET i == SkipWhile(s, 1, {" ", "\t", "\n", "\r"})
        j == SkipWhile(s, i + 4, TierSepChars)
    IN  IF /\ i + 3 <= Len(s)
           /\ Lower(SubSeq(s, i, i + 3)) = <<"t", "i", "e", "r">>
           /\ j <= Len(s)
           /\ IsDigit(s[j])
           /\ (j = Len(s) \/ ~IsWord(s[j + 1]))
        THEN <<s[j]>>
        ELSE <<>>

\* norm_tier
norm_tier(name) ==
    IF name = <<>> THEN Unknown_Tier
    ELSE LET s == Strip(name)
             m == tier_match(s)
         IN  IF m # <<>> THEN <<"T", "i", "e", "r", "_">> \o m ELSE s

\* next((p for p in parts if p.lower().startswith("tier")), "Unknown_Tier")
first_tier_part(parts) ==
    IF \E i \in 1..Len(parts) : StartsWith(Lower(parts[i]), <<"t", "i", "e", "r">>)
    THEN parts[CHOOSE k \in 1..Len(parts) :
                  /\ StartsWith(Lower(parts[k]), <<"t", "i", "e", "r">>)
                  /\ \A j \in 1..(k - 1) : ~StartsWith(Lower(parts[j]), <<"t", "i", "e", "r">>)]
    ELSE Unknown_Tier

\* os.path.basename(p)
basename(p) == SubSeq(p, RFind(p, "/") + 1, Len(p))

\* os.path.splitext(p)[0] of a name without "/": the name up to its last dot,
\* unless only dots precede that dot
splitext_root(p) ==
    LET dot == RFind(p, ".")
    IN  IF dot > 0 /\ \E k \in 1..(dot - 1) : p[k] # "."
        THEN SubSeq(p, 1, dot - 1)
        ELSE p

\* stable_id: os.path.basename raises TypeError when file_or_key is no string
stable_id(tier, site, file_or_key) ==
    IF ~IsStr(file_or_key)
    THEN [exc |-> "TypeError", val |-> <<>>]
    ELSE [exc |-> "none",
          val |-> tier \o <<"/">> \o site \o <<"/">> \o splitext_root(basename(file_or_key.v))]

----------------------------------------------------------------------------
(* normalize_record *)

FileNameAliases == <<"File_Name", "File Name", "File name">>
DateAliases ==
    <<"Date of Flood /Synthetic Flooding Event (return period (years))",
      "Date of Flood", "Date">>
HucKeys == <<"HUC2", "HUC4", "HUC6", "HUC8", "HUC10", "HUC12">>
HucLower == <<"huc2", "huc4", "huc6", "huc8", "huc10", "huc12">>

\* tier = norm_tier(next((p for p in parts if ...), "Unknown_Tier"))
record_tier(parts) == norm_tier(first_tier_part(parts))

\* site = parts[-2] if len(parts) >= 2 else "Unknown_Site"
record_site(parts) == IF Len(parts) >= 2 THEN parts[Len(parts) - 1] ELSE Unknown_Site

\* folder = "/".join(parts[:-1])
record_folder(parts) == Join(SubSeq(parts, 1, Len(parts) - 1), <<"/">>)

\* tif_url = s3_http_url(bucket, f"{folder}/{file_name}") if file_name else None
record_tif_url(bucket, folder, file_name) ==
    IF Truthy(file_name)
    THEN JStr(s3_http_url(bucket, folder \o <<"/">> \o PyStr(file_name)))
    ELSE Null

\* date_ymd = extract_ymd_iso(date_field) if tier != "Tier_4" else None
date_ymd_NoTierTest(tier, date_field) == extract_ymd_iso(date_field)
date_ymd_of(tier, date_field) ==
    IF tier # Tier_4 THEN extract_ymd_iso(date_field) ELSE Null

\* return_period = extract_return_period(date_field) if tier == "Tier_4" else None
return_period_of(tier, date_field) ==
    IF tier = Tier_4 THEN extract_return_period(date_field) ELSE Null

\* the huc dict: one lower-cased entry per HUC level present and not None
record_huc(meta) ==
    LET present == {i \in 1..Len(HucKeys) : Present(meta, HucKeys[i])}
    IN  [k \in {HucLower[i] : i \in present} |->
            LET i == CHOOSE j \in present : HucLower[j] = k
            IN  JStr(PyStr(meta.v[HucKeys[i]]))]

NoCore == [id |-> <<>>]

\* normalize_record(bucket, meta_key, meta): the (core, geom) pair, or the
\* exception raised.  On a meta that is no dict the membership tests of
\* safe_get or the first meta.get raise.
normalize_record(bucket, meta_key, meta) ==
    IF meta.t # "dict"
    THEN [exc  |-> IF meta.t = "list" THEN "AttributeError" ELSE "TypeError",
          core |-> NoCore, geom |-> Null]
    ELSE
    LET parts      == Split(meta_key, "/")
        tier       == record_tier(parts)
        site       == record_site(parts)
        folder     == record_folder(parts)
        file_name  == safe_get(meta, FileNameAliases, MAX_STR_LEN)
        tif_url    == record_tif_url(bucket, folder, file_name)
        json_url   == s3_http_url(bucket, meta_key)
        date_field == safe_get(meta, DateAliases, MAX_STR_LEN)
        date_ymd   == date_ymd_of(tier, date_field)
        lonlat     == centroid_from_meta(meta)
        return_period == return_period_of(tier, date_field)
        refs       == coerce_list(DictGet(meta, "References"))
        huc        == record_huc(meta)
        rec_id     == stable_id(tier, site, PyOr(file_name, JStr(meta_key)))
    IN  IF rec_id.exc # "none"
        THEN [exc |-> rec_id.exc, core |-> NoCore, geom |-> Null]
        ELSE [exc  |-> "none",
              core |-> [id            |-> rec_id.val,
                        tier          |-> tier,
                        site          |-> site,
                        centroid_lon  |-> JFloat(lonlat[1]),
                        centroid_lat  |-> JFloat(lonlat[2]),
                        date_ymd      |-> date_ymd,
                        date_raw      |-> date_field,
                        return_period |-> return_period,
                        file_name     |-> file_name,
                        resolution_m  |-> safe_get(meta, <<"Resolution in meter",
                                             "Resolution (m)", "resolution_m">>, MAX_STR_LEN),
                        state         |-> safe_get(meta, <<"State">>, MAX_STR_LEN),
                        description   |-> safe_get(meta, <<"Description">>, MAX_STR_LEN),
                        river_basin   |-> safe_get(meta, <<"River Basin Name",
                                             "River Basin">>, MAX_STR_LEN),
                        source        |-> safe_get(meta, <<"Source">>, MAX_STR_LEN),
                        quality       |-> PyOr(safe_get(meta, <<"Quality">>, MAX_STR_LEN),
                                               JStr(tier)),
                        references    |-> refs,
                        tif_url       |-> tif_url,
                        json_url      |-> json_url,
                        s3_key        |-> meta_key] @@ huc,
              geom |-> DictGet(meta, "FIM_Geometry")]

----------------------------------------------------------------------------
(* JSON text: json.loads as the batch uses it (the standard decoder, strict *)
(* strings, NaN and Infinity accepted), on texts without backslashes,       *)
(* fractions or exponents.  Positions are 1-based: the decoder's pos + 1.   *)
(* The byte-order mark and the four smart quotes are the one-character      *)
(* strings named "BOM", "LDQ", "RDQ", "LSQ", "RSQ".                          *)

CharAt(s, i) == IF i >= 1 /\ i <= Len(s) THEN s[i] ELSE ""

\* s[i:].startswith(p), i 1-based
HasAt(s, i, p) == i >= 1 /\ i + Len(p) - 1 <= Len(s) /\ SubSeq(s, i, i + Len(p) - 1) = p

JsonWs == {" ", "\t", "\n", "\r"}

\* WHITESPACE.match(s, i).end()
skip_ws(s, i) == SkipWhile(s, i, JsonWs)

ParseOk(v, e)    == [ok |-> TRUE,  val |-> v,    end |-> e, msg |-> ""]
ParseErr(m, pos) == [ok |-> FALSE, val |-> Null, end |-> pos, msg |-> m]

\* the not-a-number and infinite floats json.loads returns for NaN, Infinity
JNaN     == [t |-> "nan", v |-> 0]
JInf(sg) == [t |-> "inf", v |-> sg]

\* scanstring(s, end, strict=True): i is the position after the opening quote
scanstring(s, i) ==
    LET stops == {j \in i..Len(s) : s[j] = "\"" \/ s[j] \in {"\n", "\t", "\r"}}
    IN  IF stops = {} THEN ParseErr("Unterminated string starting at", i - 1)
        ELSE LET j == CHOOSE k \in stops : \A m \in stops : k <= m
             IN  IF s[j] = "\"" THEN ParseOk(JStr(SubSeq(s, i, j - 1)), j + 1)
                 ELSE ParseErr("Invalid control character at", j)

\* NUMBER_RE.match(s, i): the end of -?(0|[1-9][0-9]*), 0 when there is no match
number_end(s, i) ==
    LET d == IF CharAt(s, i) = "-" THEN i + 1 ELSE i
    IN  IF CharAt(s, d) = "0" THEN d + 1
        ELSE IF d <= Len(s) /\ IsDigit(s[d]) THEN SkipWhile(s, d, {DigitChars[k] : k \in 1..10})
        ELSE 0

number_value(s, i, e) ==
    IF s[i] = "-" THEN JInt(0 - DigitsVal(SubSeq(s, i + 1, e - 1)))
    ELSE JInt(DigitsVal(SubSeq(s, i, e - 1)))

\* dict(pairs) with one more pair: a repeated key keeps the last value
dict_put(d, k, v) == [x \in (DOMAIN d) \cup {k} |-> IF x = k THEN v ELSE d[x]]

RECURSIVE scan_once(_, _), JSONObject(_, _), object_pairs(_, _, _),
          JSONArray(_, _), array_items(_, _, _)

\* scan_once(s, idx); StopIteration(idx) is the "Expecting value" error every
\* caller turns it into
scan_once(s, i) ==
    LET c == CharAt(s, i)
        n == number_end(s, i)
    IN  CASE c = "\"" -> scanstring(s, i + 1)
          [] c = "{"  -> JSONObject(s, i + 1)
          [] c = "["  -> JSONArray(s, i + 1)
          [] c = "n" /\ HasAt(s, i, <<"n", "u", "l", "l">>) -> ParseOk(Null, i + 4)
          [] c = "t" /\ HasAt(s, i, <<"t", "r", "u", "e">>) -> ParseOk(JBool(TRUE), i + 4)
          [] c = "f" /\ HasAt(s, i, <<"f", "a", "l", "s", "e">>) -> ParseOk(JBool(FALSE), i + 5)
          [] n # 0    -> ParseOk(number_value(s, i, n), n)
          [] c = "N" /\ HasAt(s, i, <<"N", "a", "N">>) -> ParseOk(JNaN, i + 3)
          [] c = "I" /\ HasAt(s, i, <<"I", "n", "f", "i", "n", "i", "t", "y">>) ->
                ParseOk(JInf(1), i + 8)
          [] c = "-" /\ HasAt(s, i, <<"-", "I", "n", "f", "i", "n", "i", "t", "y">>) ->
                ParseOk(JInf(-1), i + 9)
          [] OTHER    -> ParseErr("Expecting value", i)

\* JSONObject: i is the position after "{"
JSONObject(s, i) ==
    LET k == skip_ws(s, i)
    IN  IF CharAt(s, k) = "}" THEN ParseOk(JDict(<<>>), k + 1)
        ELSE IF CharAt(s, k) # "\""
        THEN ParseErr("Expecting property name enclosed in double quotes", k)
        ELSE object_pairs(s, k + 1, <<>>)

\* the loop of JSONObject: i is the position after the opening quote of a key
object_pairs(s, i, d) ==
    LET key == scanstring(s, i)
    IN  IF ~key.ok THEN key
        ELSE
        LET c == skip_ws(s, key.end)
        IN  IF CharAt(s, c) # ":" THEN ParseErr("Expecting ':' delimiter", c)
            ELSE
            LET val == scan_once(s, skip_ws(s, c + 1))
            IN  IF ~val.ok THEN val
                ELSE
                LET e  == skip_ws(s, val.end)
                    d2 == dict_put(d, key.val.v, val.val)
                    k  == skip_ws(s, e + 1)
                IN  IF CharAt(s, e) = "}" THEN ParseOk(JDict(d2), e + 1)
                    ELSE IF CharAt(s, e) # "," THEN ParseErr("Expecting ',' delimiter", e)
                    ELSE IF CharAt(s, k) # "\""
                    THEN ParseErr("Expecting property name enclosed in double quotes", k)
                    ELSE object_pairs(s, k + 1, d2)

\* JSONArray: i is the position after "["
JSONArray(s, i) ==
    LET k == skip_ws(s, i)
    IN  IF CharAt(s, k) = "]" THEN ParseOk(JList(<<>>), k + 1)
        ELSE array_items(s, k, <<>>)

\* the loop of JSONArray: i is the position of the next item
array_items(s, i, l) ==
    LET val == scan_once(s, i)
    IN  IF ~val.ok THEN val
        ELSE
        LET e == skip_ws(s, val.end)
        IN  IF CharAt(s, e) = "]" THEN ParseOk(JList(Append(l, val.val)), e + 1)
            ELSE IF CharAt(s, e) # "," THEN ParseErr("Expecting ',' delimiter", e)
            ELSE array_items(s, skip_ws(s, e + 1), Append(l, val.val))

\* json.loads(s): JSONDecoder.decode, after the byte-order-mark test of loads
json_loads(s) ==
    IF CharAt(s, 1) = "BOM"
    THEN ParseErr("Unexpected UTF-8 BOM (decode using utf-8-sig)", 1)
    ELSE LET r == scan_once(s, skip_ws(s, 1))
         IN  IF ~r.ok THEN r
             ELSE IF skip_ws(s, r.end) <= Len(s) THEN ParseErr("Extra data", skip_ws(s, r.end))
             ELSE r

\* JSONDecodeError.lineno and .colno of position pos in doc
lineno(doc, pos) == 1 + Cardinality({j \in 1..(pos - 1) : doc[j] = "\n"})
colno(doc, pos) ==
    LET nl == {j \in 1..(pos - 1) : doc[j] = "\n"}
    IN  IF nl = {} THEN pos ELSE pos - (CHOOSE j \in nl : \A m \in nl : m <= j)

\* str.splitlines() of a text whose only line break is "\n"
splitlines(s) ==
    IF s = <<>> THEN <<>>
    ELSE IF s[Len(s)] = "\n" THEN Split(SubSeq(s, 1, Len(s) - 1), "\n")
    ELSE Split(s, "\n")

----------------------------------------------------------------------------
(* lenient_json_load: the repairs, each a regular-expression substitution   *)
(* applied to the whole text from left to right                             *)

\* raw.lstrip(BOM): every leading byte-order mark removed
lstrip_bom(s) == SubSeq(s, SkipWhile(s, 1, {"BOM"}), Len(s))

\* the end of the match of /\*.*?\*/ that starts at i, 0 when there is none
block_comment_end(s, i) ==
    LET closes == {j \in (i + 2)..(Len(s) - 1) : s[j] = "*" /\ s[j + 1] = "/"}
    IN  IF HasAt(s, i, <<"/", "*">>) /\ closes # {}
        THEN (CHOOSE j \in closes : \A m \in closes : j <= m) + 1
        ELSE 0

\* _BLOCK_COMMENT_RE.sub("", txt)
RECURSIVE strip_block_comments(_, _)
strip_block_comments(s, i) ==
    IF i > Len(s) THEN <<>>
    ELSE IF block_comment_end(s, i) # 0
    THEN strip_block_comments(s, block_comment_end(s, i) + 1)
    ELSE <<s[i]>> \o strip_block_comments(s, i + 1)

\* the end of the line that holds position i: the position of the next "\n",
\* Len(s) + 1 when there is none
line_end(s, i) ==
    LET nl == {j \in i..Len(s) : s[j] = "\n"}
    IN  IF nl = {} THEN Len(s) + 1 ELSE CHOOSE j \in nl : \A m \in nl : j <= m

\* the position of "//" in a match of (^|[,{]\s*)//.*$ that starts at i, 0 when
\* there is none: "//" at the start of a line, or after "," or "{" and white
\* space
line_comment_at(s, i) ==
    IF (i = 1 \/ CharAt(s, i - 1) = "\n") /\ HasAt(s, i, <<"/", "/">>) THEN i
    ELSE IF CharAt(s, i) \in {",", "{"} /\ HasAt(s, skip_ws(s, i + 1), <<"/", "/">>)
    THEN skip_ws(s, i + 1)
    ELSE 0

\* _LINE_COMMENT_RE.sub(r"\1", txt): group 1 stays, "//" to the end of the line goes
RECURSIVE strip_line_comments(_, _)
strip_line_comments(s, i) ==
    IF i > Len(s) THEN <<>>
    ELSE IF line_comment_at(s, i) # 0
    THEN SubSeq(s, i, line_comment_at(s, i) - 1)
            \o strip_line_comments(s, line_end(s, line_comment_at(s, i)))
    ELSE <<s[i]>> \o strip_line_comments(s, i + 1)

\* _TRAILING_COMMA_RE.sub(r"\1", txt): a comma followed by white space and "}" or "]"
RECURSIVE strip_trailing_commas(_, _)
strip_trailing_commas(s, i) ==
    IF i > Len(s) THEN <<>>
    ELSE IF s[i] = "," /\ CharAt(s, skip_ws(s, i + 1)) \in {"}", "]"}
    THEN SubSeq(s, i + 1, skip_ws(s, i + 1))
            \o strip_trailing_commas(s, skip_ws(s, i + 1) + 1)
    ELSE <<s[i]>> \o strip_trailing_commas(s, i + 1)

\* _unsmart
unsmart(s) ==
    [i \in 1..Len(s) |-> CASE s[i] \in {"LDQ", "RDQ"} -> "\""
                           [] s[i] \in {"LSQ", "RSQ"} -> "'"
                           [] OTHER -> s[i]]

\* a match of "(HUC\d{1,2})"\s*:\s*(0\d+)(\s*[,\}\]]) that starts at i:
\* the positions of its parts, ok = FALSE when there is none
huc_match(s, i) ==
    LET k1 == i + 4                       \* the first digit of the key
        kq == IF IsDigit(CharAt(s, k1 + 1)) THEN k1 + 2 ELSE k1 + 1   \* the closing quote
        c  == skip_ws(s, kq + 1)          \* the colon
        v  == skip_ws(s, c + 1)           \* the leading zero
        ve == SkipWhile(s, v + 1, {DigitChars[k] : k \in 1..10})  \* after the digits
        t  == skip_ws(s, ve)              \* the closing "," "}" or "]"
    IN  IF /\ HasAt(s, i, <<"\"", "H", "U", "C">>)
           /\ IsDigit(CharAt(s, k1))
           /\ CharAt(s, kq) = "\""
           /\ CharAt(s, c) = ":"
           /\ CharAt(s, v) = "0"
           /\ ve > v + 1
           /\ CharAt(s, t) \in {",", "}", "]"}
        THEN [ok |-> TRUE, key |-> SubSeq(s, i, kq), digits |-> SubSeq(s, v, ve - 1),
              tail |-> SubSeq(s, ve, t), end |-> t]
        ELSE [ok |-> FALSE, key |-> <<>>, digits |-> <<>>, tail |-> <<>>, end |-> 0]

\* _HUC_LEADING0_RE.sub(r'"\1": "\2"\3', txt)
RECURSIVE quote_huc(_, _)
quote_huc(s, i) ==
    IF i > Len(s) THEN <<>>
    ELSE LET m == huc_match(s, i)
         IN  IF m.ok
             THEN m.key \o <<":", " ", "\"">> \o m.digits \o <<"\"">> \o m.tail
                        \o quote_huc(s, m.end + 1)
             ELSE <<s[i]>> \o quote_huc(s, i + 1)

NullText == <<"n", "u", "l", "l">>

\* (?<![A-Za-z0-9_]) before i and (?![A-Za-z0-9_]) at j
WordBounded(s, i, j) == ~IsWord(CharAt(s, i - 1)) /\ ~IsWord(CharAt(s, j))

\* re.sub(r'(?<![A-Za-z0-9_])NaN(?![A-Za-z0-9_])', 'null', txt)
RECURSIVE nan_to_null(_, _)
nan_to_null(s, i) ==
    IF i > Len(s) THEN <<>>
    ELSE IF HasAt(s, i, <<"N", "a", "N">>) /\ WordBounded(s, i, i + 3)
    THEN NullText \o nan_to_null(s, i + 3)
    ELSE <<s[i]>> \o nan_to_null(s, i + 1)

InfinityText == <<"I", "n", "f", "i", "n", "i", "t", "y">>

\* re.sub(r'(?<![A-Za-z0-9_])-?Infinity(?![A-Za-z0-9_])', 'null', txt)
RECURSIVE infinity_to_null(_, _)
infinity_to_null(s, i) ==
    IF i > Len(s) THEN <<>>
    ELSE IF HasAt(s, i, <<"-">> \o InfinityText) /\ WordBounded(s, i, i + 9)
    THEN NullText \o infinity_to_null(s, i + 9)
    ELSE IF HasAt(s, i, InfinityText) /\ WordBounded(s, i, i + 8)
    THEN NullText \o infinity_to_null(s, i + 8)
    ELSE <<s[i]>> \o infinity_to_null(s, i + 1)

\* the text lenient_json_load hands to json.loads
repaired_text(raw) ==
    LET t1 == lstrip_bom(raw)
        t2 == strip_block_comments(t1, 1)
        t3 == strip_line_comments(t2, 1)
        t4 == strip_trailing_commas(t3, 1)
        t5 == unsmart(t4)
        t6 == quote_huc(t5, 1)
        t7 == nan_to_null(t6, 1)
    IN  infinity_to_null(t7, 1)

\* lenient_json_load(raw)
lenient_json_load(raw) == json_loads(repaired_text(raw))

\* the repair steps of lenient_json_load in the order of its statements, the
\* two re.sub calls for NaN and Infinity counted as one step
RepairSteps == 7
RepairStep(k, s) ==
    CASE k = 1 -> lstrip_bom(s)
      [] k = 2 -> strip_block_comments(s, 1)
      [] k = 3 -> strip_line_comments(s, 1)
      [] k = 4 -> strip_trailing_commas(s, 1)
      [] k = 5 -> unsmart(s)
      [] k = 6 -> quote_huc(s, 1)
      [] k = 7 -> infinity_to_null(nan_to_null(s, 1), 1)

\* the value of txt after the first k statements
RECURSIVE repaired_upto(_, _)
repaired_upto(raw, k) == IF k = 0 THEN raw ELSE RepairStep(k, repaired_upto(raw, k - 1))

\* the successive values of txt
repair_steps(raw) == [k \in 1..RepairSteps |-> repaired_upto(raw, k)]

\* load_with_context(raw, where) on the text of an object: the value, or the
\* ValueError with the line and column of the error it caught and the lines
\* raw[i:j] numbered from i + 1
load_with_context_raw(raw) ==
    LET strict == json_loads(raw)
        txt    == repaired_text(raw)
        e      == json_loads(txt)
        lines  == splitlines(raw)
        ln     == lineno(txt, e.end)
        i      == IF ln - 3 > 0 THEN ln - 3 ELSE 0
        j      == IF Len(lines) < ln + 2 THEN Len(lines) ELSE ln + 2
    IN  IF strict.ok
        THEN [exc |-> "none", val |-> strict.val, msg |-> "", lineno |-> 0, colno |-> 0,
              ctx |-> <<>>]
        ELSE IF e.ok
        THEN [exc |-> "none", val |-> e.val, msg |-> "", lineno |-> 0, colno |-> 0,
              ctx |-> <<>>]
        ELSE [exc |-> "ValueError", val |-> Null, msg |-> e.msg, lineno |-> ln,
              colno |-> colno(txt, e.end),
              ctx |-> [k \in 1..(IF j > i THEN j - i ELSE 0) |->
                          [no |-> i + k, text |-> lines[i + k]]]]

----------------------------------------------------------------------------
(* The inputs normalize_record is applied to *)

\* the largest number of "/"-separated segments of a source key
MaxSegs == 2

\* path segments: canonical and non-canonical tier names, a site, a file
Segments ==
    { <<"T", "i", "e", "r", "_", "1">>,
      <<"T", "i", "e", "r", "_", "4">>,
      <<"T", "I", "E", "R", " ", "3">>,
      <<"t", "i", "e", "r", "-", "4", " ">>,
      <<"T", "i", "e", "r", "_", "_", "1">>,
      <<"t", "i", "e", "r", "s">>,
      <<"T", "i", "e", "r", "_", "1", "2">>,
      <<"S", "i", "t", "e", "A">>,
      <<"a", "_", "m", ".", "j", "s", "o", "n">> }

RECURSIVE KeysOfLen(_)
KeysOfLen(n) ==
    IF n = 1 THEN Segments
    ELSE {k \o <<"/">> \o s : k \in KeysOfLen(n - 1), s \in Segments}

NormKeys == UNION {KeysOfLen(n) : n \in 1..MaxSegs}

Absent == [t |-> "absent", v |-> 0]

\* a dict with the given fields, those whose value is Absent left out
DictOf(fields) ==
    JDict([k \in {fields[i][1] : i \in {j \in 1..Len(fields) : fields[j][2] # Absent}} |->
              (fields[CHOOSE i \in 1..Len(fields) : fields[i][1] = k])[2]])

FileNameChoices ==
    { Absent,
      JStr(<<"a", ".", "t", "i", "f">>),
      JStr(<<>>),
      JInt(123),
      JList(<<JStr(<<"a">>)>>) }

DateChoices ==
    { Absent,
      JStr(<<"2", "0", "2", "1", "0", "6", "1", "5", " ", "f", "l", "o", "o", "d">>),
      JStr(<<"2", "0", "2", "1", "0", "2", "3", "0">>),
      JStr(<<"1", "0", "0", " ", "y", "r">>),
      JStr(<<"0", "0">>),
      JStr(<<"5", " ", "y", "r">>),
      JInt(20210615),
      JInt(500) }

CentroidChoices ==
    { Absent,
      JList(<<JInt(-87), JInt(33)>>),
      JList(<<JStr(<<" ", "1">>), JStr(<<"-", "2">>), JInt(9)>>),
      JList(<<JStr(<<"x">>), JInt(1)>>),
      JList(<<JInt(1)>>),
      JList(<<Null, Null>>),
      JStr(<<"a", "b">>) }

ExtentOf(xmin, ymin, xmax, ymax) ==
    DictOf(<<<<"xmin", xmin>>, <<"ymin", ymin>>, <<"xmax", xmax>>, <<"ymax", ymax>>>>)

ExtentChoices ==
    { Absent,
      ExtentOf(JInt(0), JInt(1), JInt(3), JInt(4)),
      ExtentOf(JInt(-4), JStr(<<"2">>), JInt(-2), JInt(2)),
      ExtentOf(JInt(0), JInt(1), JInt(3), Absent),
      ExtentOf(JInt(0), Null, JInt(3), JInt(4)),
      ExtentOf(JStr(<<"x">>), JInt(1), JInt(3), JInt(4)),
      JStr(<<"a", "b">>),
      JList(<<JInt(0), JInt(1), JInt(3), JInt(4)>>) }

CentroidMetas ==
    {DictOf(<<<<CentroidKey, c>>, <<"Extent", e>>>>) :
        c \in CentroidChoices, e \in ExtentChoices}

\* a string of n characters
LongText(n) == JStr([i \in 1..n |-> "x"])

\* documents that name a field by several aliases, with null, empty, long and
\* non-string values
AliasMetas ==
    { DictOf(<<<<"File_Name", Null>>,
               <<"File Name", JStr(<<"b", ".", "t", "i", "f">>)>>,
               <<"File name", JStr(<<"c", ".", "t", "i", "f">>)>>,
               <<"Quality", JInt(0)>>>>),
      DictOf(<<<<"File_Name", JStr(<<>>)>>,
               <<"File Name", JStr(<<"b", ".", "t", "i", "f">>)>>,
               <<"River Basin Name", Null>>,
               <<"River Basin", JStr(<<>>)>>,
               <<"Quality", JStr(<<"H", "i", "g", "h">>)>>>>),
      DictOf(<<<<"File_Name", JStr(<<"a", ".", "t", "i", "f">>)>>,
               <<"File Name", JStr(<<"b", ".", "t", "i", "f">>)>>,
               <<"Resolution (m)", JInt(30)>>,
               <<"resolution_m", JStr(<<"1", "0">>)>>,
               <<"Date", JStr(<<"2", "0", "2", "1", "0", "6", "1", "5">>)>>,
               <<"Date of Flood", JStr(<<"5", " ", "y", "r">>)>>,
               <<"Description", LongText(MAX_STR_LEN + 1)>>,
               <<"Source", LongText(MAX_STR_LEN)>>,
               <<"State", JList(<<JStr(<<"A", "L">>)>>)>>,
               <<"Quality", LongText(MAX_STR_LEN + 2)>>>>) }

NormMetas ==
    CentroidMetas \cup AliasMetas \cup
    {DictOf(<<<<"File_Name", f>>, <<"Date of Flood", d>>>>) :
        f \in FileNameChoices, d \in DateChoices}
    \cup {DictOf(<<<<"File Name", JStr(<<"b", ".", "t", "i", "f">>)>>,
                   <<"Date", JStr(<<"2", "5", " ", "y", "r">>)>>,
                   <<"HUC8", JInt(8070205)>>,
                   <<"Quality", JStr(<<>>)>>,
                   <<"References", JStr(<<"r">>)>>>>),
          JList(<<>>), Null}

----------------------------------------------------------------------------
(* SpecNorm: normalize_record applied to every key and metadata above *)

\* the variables of main while normalize_record alone is exercised
MainIdle ==
    /\ skip_geometry = FALSE /\ no_upload = FALSE
    /\ fetched = <<>> /\ meta_keys = <<>> /\ idx = 1
    /\ core_rows = <<>> /\ ext_rows = <<>> /\ errors = <<>>
    /\ seen_ids = <<>> /\ geom = Null
    /\ out_gpq = "unknown" /\ pub_core = "prev" /\ pub_gpq = "prev"
    /\ exit_code = -1 /\ pc = "idle"

NoLoad == [exc |-> "pending", val |-> Null, msg |-> "", lineno |-> 0, colno |-> 0,
           ctx |-> <<>>]
NoRecord == [exc |-> "pending", core |-> NoCore, geom |-> Null]

\* the variables of the text loader while it is not exercised
LoadIdle ==
    /\ l_doc = [pre |-> 1, members |-> <<>>, post |-> 1]
    /\ l_raw = <<>> /\ l_out = NoLoad /\ l_rec = NoRecord /\ l_pc = "idle"
    /\ q_out = ParseErr("", 0) /\ q_pc = "idle" /\ q_steps = <<>>

NotMerged == [before |-> <<>>, after |-> <<>>]

\* the variables of the tile utility while it is not exercised
TileIdle ==
    /\ t_args = [source |-> "parquet", catalog |-> FALSE, include |-> <<>>,
                 skip_extract |-> FALSE, s3 |-> FALSE, keep_temp |-> FALSE]
    /\ t_env = [tippecanoe |-> FALSE, mbutil |-> FALSE, tiles_dir |-> "absent", features |-> 0,
               catalog_ids |-> "same", unusable |-> "none"]
    /\ t_merge = NotMerged
    /\ t_geojson = <<>> /\ t_cmd = [exclude_all |-> FALSE, include |-> <<>>]
    /\ t_calls = <<>> /\ t_tiles = "absent" /\ t_uploaded = FALSE
    /\ t_exit = -1 /\ t_pc = "idle"

InitNorm ==
    /\ MainIdle
    /\ LoadIdle
    /\ TileIdle
    /\ n_key \in NormKeys
    /\ n_meta \in NormMetas
    /\ n_out = [exc |-> "pending", core |-> NoCore, geom |-> Null]
    /\ n_pc = "call"
    /\ v_out = [exc |-> "pending", lon |-> 0, lat |-> 0]
    /\ v_pc = "call"

Normalize ==
    /\ n_pc = "call"
    /\ n_out' = normalize_record(DEFAULT_BUCKET, n_key, n_meta)
    /\ n_pc' = "done"
    /\ UNCHANGED <<n_key, n_meta, v_out, v_pc>>
    /\ UNCHANGED <<mainVars, loadVars, tileVars>>

\* the viewer's build_catalog processes the same metadata object
ViewerCentroid ==
    /\ v_pc = "call"
    /\ v_out' = s3_catalog_centroid(n_meta)
    /\ v_pc' = "done"
    /\ UNCHANGED <<n_key, n_meta, n_out, n_pc>>
    /\ UNCHANGED <<mainVars, loadVars, tileVars>>

NextNorm == Normalize \/ ViewerCentroid

SpecNorm == InitNorm /\ [][NextNorm]_vars

----------------------------------------------------------------------------
(* The batch run: main of src/build_catalog.py *)

SIMPLIFY_M == 100

\* How shapely and pyproj treat a geometry value is the environment's: a
\* geometry is a dict whose "shape" names the outcome of the library calls.
\*   "unbuildable"  shape() raises
\*   "empty"        shape() gives an empty geometry
\*   "ok"           projection and simplification give a non-empty geometry
\*   "collapses"    the simplified geometry is empty
\*   "geos_error"   projection or simplification raises GEOSException
\*   "proj_error"   projection raises an exception that is no GEOSException
\*                  (pyproj's ProjError)
Geometry(shape) == JDict([shape |-> shape])

simplify_geojson_lonlat_KeepEmpty(geom_geojson, tol_m) ==
    IF IsNone(geom_geojson) THEN [exc |-> "none", val |-> Null]
    ELSE [exc |-> "none", val |-> geom_geojson]

\* simplify_geojson_lonlat
simplify_geojson_lonlat(geom_geojson, tol_m) ==
    IF IsNone(geom_geojson) THEN [exc |-> "none", val |-> Null]
    ELSE LET shape == geom_geojson.v["shape"]
         IN  IF shape = "unbuildable" THEN [exc |-> "none", val |-> Null]
             ELSE IF shape = "empty" THEN [exc |-> "none", val |-> Null]
             ELSE IF shape = "geos_error" THEN [exc |-> "none", val |-> Null]
             ELSE IF shape = "proj_error" THEN [exc |-> "ProjError", val |-> Null]
             ELSE IF shape = "collapses" THEN [exc |-> "none", val |-> Null]
             ELSE [exc |-> "none", val |-> Geometry("simplified")]

\* str.endswith(p)
EndsWith(s, p) == Len(s) >= Len(p) /\ SubSeq(s, Len(s) - Len(p) + 1, Len(s)) = p

MetaSuffix == <<"_", "m", "e", "t", "a", "d", "a", "t", "a", ".", "j", "s", "o", "n">>

\* list_meta_keys: the keys of the listing that end in "_metadata.json"
IsMetaKey(k) == EndsWith(Lower(k), MetaSuffix)
list_meta_keys(objects) ==
    LET keys == [n \in 1..Len(objects) |-> objects[n].key]
    IN  SelectSeq(keys, IsMetaKey)

\* load_with_context: the parsed document, or ValueError when neither the
\* strict nor the repaired parse succeeds
load_with_context(obj) ==
    IF obj.readable THEN [exc |-> "none", val |-> obj.meta]
    ELSE [exc |-> "ValueError", val |-> Null]

\* the id written back to core["id"] (lines 250-255)
dedup_id_PreIncrement(seen, rid) ==
    IF rid \in DOMAIN seen THEN rid \o <<"_", "_">> \o IntStr(seen[rid]) ELSE rid
dedup_id(seen, rid) ==
    IF rid \in DOMAIN seen THEN rid \o <<"_", "_">> \o IntStr(seen[rid] + 1) ELSE rid

\* seen_ids after the id was looked up (lines 251-255)
dedup_seen(seen, rid) ==
    IF rid \in DOMAIN seen THEN [seen EXCEPT ![rid] = @ + 1] ELSE seen @@ (rid :> 1)

\* the feature appended to ext_rows (line 262)
ext_row_BaseId(core, simp) ==
    [id   |-> stable_id(core.tier, core.site, PyOr(core.file_name, JStr(core.s3_key))).val,
     tier |-> core.tier, site |-> core.site, geometry |-> simp]
ext_row(core, simp) ==
    [id |-> core.id, tier |-> core.tier, site |-> core.site, geometry |-> simp]

\* the exit status when exception e leaves main: ClientError is caught at the
\* bottom of the script (exit 2), any other exception ends the interpreter (1)
ExitOn(e) == IF e = "ClientError" THEN 2 ELSE 1

\* what a storage call can do: succeed, be refused (ClientError: credentials,
\* permissions) or not reach the endpoint (EndpointConnectionError)
StorageFailures == {"ClientError", "EndpointConnectionError"}

----------------------------------------------------------------------------
(* The objects in the bucket *)

\* the largest number of metadata objects under the prefix
MaxKeys == 3

KeyFolder == <<"T", "i", "e", "r", "_", "1", "/", "S", "/">>
KeyOf(n) == KeyFolder \o IntStr(n) \o MetaSuffix

\* a raster beside the metadata objects, which the listing returns too
RasterKey == KeyFolder \o <<"a", ".", "t", "i", "f">>

\* what list_objects_v2 returns for a prefix holding n metadata objects
Listing(n) == [k \in 1..(n + 1) |-> [key |-> IF k <= n THEN KeyOf(k) ELSE RasterKey]]

Readable(file, g) ==
    [readable |-> TRUE,
     meta |-> DictOf(<<<<"File_Name", file>>, <<"FIM_Geometry", g>>>>)]

\* what a metadata object can hold
Bodies ==
    { Readable(JStr(<<"a", ".", "t", "i", "f">>), Geometry("ok")),
      Readable(JStr(<<"a", "_", "_", "2", ".", "t", "i", "f">>), Geometry("ok")),
      Readable(JStr(<<"b", ".", "t", "i", "f">>), Geometry("proj_error")),
      Readable(JStr(<<"b", ".", "t", "i", "f">>), Geometry("geos_error")),
      Readable(Absent, Geometry("empty")),
      Readable(JStr(<<"c", ".", "t", "i", "f">>), Null),
      Readable(JInt(123), Geometry("ok")),
      [readable |-> FALSE, meta |-> Null] }

----------------------------------------------------------------------------
(* Spec: one run of main *)

NormIdle ==
    /\ n_key = <<>> /\ n_meta = Null
    /\ n_out = [exc |-> "pending", core |-> NoCore, geom |-> Null]
    /\ n_pc = "idle"
    /\ v_out = [exc |-> "pending", lon |-> 0, lat |-> 0]
    /\ v_pc = "idle"

Init ==
    /\ NormIdle
    /\ LoadIdle
    /\ TileIdle
    /\ skip_geometry \in BOOLEAN
    /\ no_upload \in BOOLEAN
    /\ fetched = <<>>
    /\ meta_keys = <<>>
    /\ idx = 1
    /\ core_rows = <<>>
    /\ ext_rows = <<>>
    /\ errors = <<>>
    /\ seen_ids = <<>>
    /\ geom = Null
    /\ out_gpq = "unknown"
    /\ pub_core = "prev"
    /\ pub_gpq = "prev"
    /\ exit_code = -1
    /\ pc = "list"

\* line 232: the listing succeeds
List ==
    /\ pc = "list"
    /\ \E n \in 0..MaxKeys : meta_keys' = list_meta_keys(Listing(n))
    /\ pc' = "loop"
    /\ UNCHANGED <<normVars, loadVars, tileVars, skip_geometry, no_upload, fetched, idx, core_rows, ext_rows,
                   errors, seen_ids, geom, out_gpq, pub_core, pub_gpq, exit_code>>

\* an exception leaves main: lines 316-322
Abort(e) ==
    /\ pc' = "aborted"
    /\ exit_code' = ExitOn(e)

\* line 232: the listing raises
ListFails ==
    /\ pc = "list"
    /\ \E e \in StorageFailures : Abort(e)
    /\ UNCHANGED <<normVars, loadVars, tileVars, skip_geometry, no_upload, fetched, meta_keys, idx, core_rows,
                   ext_rows, errors, seen_ids, geom, out_gpq, pub_core, pub_gpq>>

\* lines 263-264: except Exception as e: errors.append((key, repr(e)))
Caught(key, e) ==
    /\ errors' = Append(errors, <<key, e>>)
    /\ idx' = idx + 1
    /\ pc' = "loop"
    /\ geom' = Null

\* line 244: get_object raises; the loop's handler catches it
FetchFails ==
    /\ pc = "loop"
    /\ idx <= Len(meta_keys)
    /\ \E e \in StorageFailures : Caught(meta_keys[idx], e)
    /\ UNCHANGED <<normVars, loadVars, tileVars, skip_geometry, no_upload, fetched, meta_keys, core_rows,
                   ext_rows, seen_ids, out_gpq, pub_core, pub_gpq, exit_code>>

\* lines 244-257: fetch, parse, normalise, make the id unique, append the record
ProcessKey ==
    /\ pc = "loop"
    /\ idx <= Len(meta_keys)
    /\ \E body \in Bodies :
         LET key == meta_keys[idx]
             obj == [key |-> key, readable |-> body.readable, meta |-> body.meta]
             m   == load_with_context(obj)
             r   == normalize_record(DEFAULT_BUCKET, key, m.val)
         IN  /\ fetched' = Append(fetched, obj)
             /\ IF m.exc # "none"
                THEN Caught(key, m.exc) /\ UNCHANGED <<core_rows, seen_ids>>
                ELSE IF r.exc # "none"
                THEN Caught(key, r.exc) /\ UNCHANGED <<core_rows, seen_ids>>
                ELSE
                LET rid  == r.core.id
                    core == [r.core EXCEPT !.id = dedup_id(seen_ids, rid)]
                IN  /\ seen_ids' = dedup_seen(seen_ids, rid)
                    /\ core_rows' = Append(core_rows, core)
                    /\ IF ~skip_geometry /\ Truthy(r.geom)
                       THEN geom' = r.geom /\ pc' = "geom" /\ idx' = idx
                       ELSE geom' = Null /\ pc' = "loop" /\ idx' = idx + 1
                    /\ UNCHANGED errors
    /\ UNCHANGED <<normVars, loadVars, tileVars, skip_geometry, no_upload, meta_keys, ext_rows, out_gpq,
                   pub_core, pub_gpq, exit_code>>

\* lines 259-264: simplify the geometry and append the feature
ProcessGeometry ==
    /\ pc = "geom"
    /\ LET simp == simplify_geojson_lonlat(geom, SIMPLIFY_M)
       IN  IF simp.exc # "none"
           THEN Caught(meta_keys[idx], simp.exc) /\ UNCHANGED ext_rows
           ELSE /\ ext_rows' = IF Truthy(simp.val)
                               THEN Append(ext_rows, ext_row(core_rows[Len(core_rows)], simp.val))
                               ELSE ext_rows
                /\ idx' = idx + 1
                /\ pc' = "loop"
                /\ geom' = Null
                /\ UNCHANGED errors
    /\ UNCHANGED <<normVars, loadVars, tileVars, skip_geometry, no_upload, fetched, meta_keys, core_rows,
                   seen_ids, out_gpq, pub_core, pub_gpq, exit_code>>

\* lines 266-275: the catalog document is written to the local file
WriteCore ==
    /\ pc = "loop"
    /\ idx > Len(meta_keys)
    /\ pc' = "write_gpq"
    /\ UNCHANGED <<normVars, loadVars, tileVars, skip_geometry, no_upload, fetched, meta_keys, idx, core_rows,
                   ext_rows, errors, seen_ids, geom, out_gpq, pub_core, pub_gpq, exit_code>>

\* lines 277-293: the extract is written to the local file when there are
\* features; otherwise the path holds what it held before the run, nothing
\* or an earlier run's file.  With --no-upload main returns here.
WriteGpq ==
    /\ pc = "write_gpq"
    /\ IF ~skip_geometry /\ ext_rows # <<>>
       THEN out_gpq' = "this"
       ELSE out_gpq' \in {"none", "stale"}
    /\ IF no_upload
       THEN pc' = "done" /\ exit_code' = 0
       ELSE pc' = "upload_core" /\ exit_code' = exit_code
    /\ UNCHANGED <<normVars, loadVars, tileVars, skip_geometry, no_upload, fetched, meta_keys, idx, core_rows,
                   ext_rows, errors, seen_ids, geom, pub_core, pub_gpq>>

\* lines 295-301: put_object of the catalog
UploadCore ==
    /\ pc = "upload_core"
    /\ pub_core' = "this"
    /\ pc' = "upload_gpq"
    /\ UNCHANGED <<normVars, loadVars, tileVars, skip_geometry, no_upload, fetched, meta_keys, idx, core_rows,
                   ext_rows, errors, seen_ids, geom, out_gpq, pub_gpq, exit_code>>

\* line 296: put_object of the catalog raises
UploadCoreFails ==
    /\ pc = "upload_core"
    /\ \E e \in StorageFailures : Abort(e)
    /\ UNCHANGED <<normVars, loadVars, tileVars, skip_geometry, no_upload, fetched, meta_keys, idx, core_rows,
                   ext_rows, errors, seen_ids, geom, out_gpq, pub_core, pub_gpq>>

\* lines 303-313: put_object of the extract when the local file exists
UploadGpq ==
    /\ pc = "upload_gpq"
    /\ pub_gpq' = IF ~skip_geometry /\ out_gpq # "none" THEN out_gpq ELSE pub_gpq
    /\ pc' = "done"
    /\ exit_code' = 0
    /\ UNCHANGED <<normVars, loadVars, tileVars, skip_geometry, no_upload, fetched, meta_keys, idx, core_rows,
                   ext_rows, errors, seen_ids, geom, out_gpq, pub_core>>

\* line 306: put_object of the extract raises
UploadGpqFails ==
    /\ pc = "upload_gpq"
    /\ ~skip_geometry /\ out_gpq # "none"
    /\ \E e \in StorageFailures : Abort(e)
    /\ UNCHANGED <<normVars, loadVars, tileVars, skip_geometry, no_upload, fetched, meta_keys, idx, core_rows,
                   ext_rows, errors, seen_ids, geom, out_gpq, pub_core, pub_gpq>>

Next ==
    \/ List \/ ListFails \/ FetchFails \/ ProcessKey \/ ProcessGeometry
    \/ WriteCore \/ WriteGpq
    \/ UploadCore \/ UploadCoreFails \/ UploadGpq \/ UploadGpqFails

Spec == Init /\ [][Next]_vars

----------------------------------------------------------------------------
(* SpecLoad: one object of the batch, from its text to its record           *)
(* (main, lines 244-249), and lenient_json_load applied to the same text    *)

\* the largest number of members of a document
MaxMembers == 2

PreTexts ==
    << <<"{">>,
       <<"BOM", "{">>,
       <<"{", "\n", "/", "/", " ", "c", "\n">>,
       <<"/", "*", " ", "c", "\n", "*", "/", "{">> >>
\* whether the opening is strictly valid JSON as it stands
PreValid == << TRUE, FALSE, FALSE, FALSE >>

PostTexts ==
    << <<"}">>,
       <<",", "}">>,
       <<"\n", "}", "\n">>,
       <<",", " ", "/", "/", " ", "c", "\n", " ", " ", "/", "/", " ", "d", "\n", "}">> >>
PostValid == << TRUE, FALSE, TRUE, FALSE >>

\* the members "key: value" a document is composed of
MemberTexts ==
    << <<"\"", "a", "\"", ":", " ", "1">>,
       <<"\"", "u", "\"", ":", " ", "\"", "x", ",", "]", "\"">>,
       <<"\"", "d", "\"", ":", " ", "\"", "LDQ", "b", "RDQ", "\"">>,
       <<"\"", "c", "\"", ":", " ", "\"", "p", "/", "*", "q", "*", "/", "\"">>,
       <<"\"", "s", "\"", ":", " ", "\"", "a", ",", "/", "/", "b", "\"">>,
       <<"\"", "n", "\"", ":", " ", "\"", "N", "a", "N", "\"">>,
       <<"\"", "H", "U", "C", "8", "\"", ":", " ", "0", "8", "0", "7", "0", "2", "0", "5">>,
       <<"\"", "H", "U", "C", "1", "2", "\"", "\n", ":", " ", "0", "8", "0", "7">>,
       <<"\"", "v", "\"", ":", " ", "N", "a", "N">>,
       <<"\"", "l", "\"", ":", " ", "[", "1", ",", " ", "2", ",", "]">>,
       <<"\"", "m", "\"", ":", " ">>,
       <<"LDQ", "q", "RDQ", ":", " ", "1">>,
       <<"\"", "z", "\"", ":", " ", "0", "0", "7">>,
       <<"\"", "i", "\"", ":", " ", "\"", "-", "I", "n", "f", "i", "n", "i", "t", "y", "\"">>,
       <<"\"", "w", "\"", ":", " ", "\"", "h", ":", "/", "/", "x", "\"">> >>
\* "valid": strictly valid JSON; "huc0": a bare leading-zero number under a
\* HUC key; "defect": any other departure from strict JSON
MemberKinds ==
    << "valid", "valid", "valid", "valid", "valid", "valid",
       "huc0", "huc0", "defect", "defect", "defect", "defect",
       "defect", "valid", "valid" >>

\* for each "huc0" member: its key, the record field of that HUC level and the
\* digits written
MemberHuc ==
    (7 :> [key |-> <<"H", "U", "C", "8">>, field |-> "huc8", digits |-> <<"0", "8", "0", "7", "0", "2", "0", "5">>])
    @@ (8 :> [key |-> <<"H", "U", "C", "1", "2">>, field |-> "huc12", digits |-> <<"0", "8", "0", "7">>])

\* member choices: increasing positions in MemberTexts, at most MaxMembers
MemberSeqs ==
    {m \in UNION {[1..n -> 1..Len(MemberTexts)] : n \in 0..MaxMembers} :
        \A a \in 1..(Len(m) - 1) : m[a] < m[a + 1]}

Docs == [pre : 1..Len(PreTexts), members : MemberSeqs, post : 1..Len(PostTexts)]

\* the text of a document: opening, members separated by ", ", closing
DocText(doc) ==
    PreTexts[doc.pre]
        \o Join([a \in 1..Len(doc.members) |-> MemberTexts[doc.members[a]]], <<",", " ">>)
        \o PostTexts[doc.post]

\* the key the object is stored at
LoadKey == KeyOf(1)

\* the field names normalize_record reads that occur in the texts
MetaFieldTexts ==
    [ File_Name |-> <<"F", "i", "l", "e", "_", "N", "a", "m", "e">>,
      Date      |-> <<"D", "a", "t", "e">>,
      HUC2      |-> <<"H", "U", "C", "2">>,
      HUC4      |-> <<"H", "U", "C", "4">>,
      HUC6      |-> <<"H", "U", "C", "6">>,
      HUC8      |-> <<"H", "U", "C", "8">>,
      HUC10     |-> <<"H", "U", "C", "1", "0">>,
      HUC12     |-> <<"H", "U", "C", "1", "2">> ]

\* the loaded value as normalize_record reads it: a dict by field name
as_meta(v) ==
    IF v.t # "dict" THEN v
    ELSE JDict([n \in {f \in DOMAIN MetaFieldTexts : MetaFieldTexts[f] \in DOMAIN v.v} |->
                   v.v[MetaFieldTexts[n]]])

InitLoad ==
    /\ NormIdle
    /\ MainIdle
    /\ TileIdle
    /\ l_doc \in Docs
    /\ l_raw = DocText(l_doc)
    /\ l_out = NoLoad /\ l_rec = NoRecord /\ l_pc = "call"
    /\ q_out = ParseErr("", 0) /\ q_pc = "call" /\ q_steps = <<>>

\* meta = load_with_context(raw, ...); core, geom = normalize_record(bucket, key, meta)
LoadObject ==
    /\ l_pc = "call"
    /\ l_out' = load_with_context_raw(l_raw)
    /\ l_rec' = IF l_out'.exc = "none"
                THEN normalize_record(DEFAULT_BUCKET, LoadKey, as_meta(l_out'.val))
                ELSE NoRecord
    /\ l_pc' = "done"
    /\ UNCHANGED <<l_doc, l_raw, q_out, q_pc, q_steps>>
    /\ UNCHANGED <<normVars, mainVars, tileVars>>

\* lenient_json_load(raw)
LenientLoad ==
    /\ q_pc = "call"
    /\ q_out' = lenient_json_load(l_raw)
    /\ q_steps' = repair_steps(l_raw)
    /\ q_pc' = "done"
    /\ UNCHANGED <<l_doc, l_raw, l_out, l_rec, l_pc>>
    /\ UNCHANGED <<normVars, mainVars, tileVars>>

NextLoad == LoadObject \/ LenientLoad

SpecLoad == InitLoad /\ [][NextLoad]_vars

----------------------------------------------------------------------------
(* The tile utility: src/fim_viz/fim_tiles.py, fed with the extract and the *)
(* catalog of one of the two catalog builders.  A data frame is a sequence  *)
(* of rows, each a function from column names to values.                    *)

\* the largest number of features of an extract
MaxFeatures == 2

NA == Null

\* the value of a column computed from the geometry (centroid, bbox)
FromGeometry == [t |-> "computed", v |-> 0]

\* the metadata of the objects the extract was built from: objects of one
\* folder that share a file name, so that the builder suffixes their ids
TileMeta ==
    DictOf(<<<<"File_Name", JStr(<<"a", ".", "t", "i", "f">>)>>,
             <<"Date", JStr(<<"2", "0", "2", "1", "0", "6", "1", "5">>)>>,
             <<"State", JStr(<<"A", "L">>)>>>>)

\* the k-th record of catalog_core.json of src/build_catalog.py
suffixed_record(core, k) ==
    [core EXCEPT !.id = IF k = 1 THEN core.id ELSE dedup_id(core.id :> (k - 1), core.id)]

builder_record(k) ==
    suffixed_record(normalize_record(DEFAULT_BUCKET, KeyOf(k), TileMeta).core, k)

\* a record as json.dump writes it and json.load reads it back: every string a
\* JSON string
json_record(core) ==
    [c \in DOMAIN core |->
        IF c \in {"id", "tier", "site", "json_url", "s3_key"} THEN JStr(core[c])
        ELSE IF c = "references"
        THEN JList([a \in 1..Len(core[c]) |-> JStr(core[c][a])])
        ELSE core[c]]

\* a row of extents.parquet: the id, tier and site columns and the geometry
parquet_row(row) ==
    [id |-> JStr(row.id), tier |-> JStr(row.tier), site |-> JStr(row.site),
     geometry |-> row.geometry]

\* the same record as src/fim_viz/build_catalog.py builds it (its field names)
viz_fields(core) ==
        [id |-> JStr(core.id), feature_id |-> JStr(core.id), site_id |-> JStr(core.site),
         tier |-> JStr(core.tier), site |-> JStr(core.site), event_date |-> core.date_ymd,
         event_ts |-> IF IsNone(core.date_ymd) THEN Null
                      ELSE JInt(DigitsVal(SelectSeq(core.date_ymd.v, IsDigit))),
         date_raw |-> core.date_raw, return_period |-> core.return_period,
         metadata_url |-> JStr(core.json_url),
         s3_prefix |-> JStr(record_folder(Split(core.s3_key, "/"))),
         tif_url |-> core.tif_url, geom_version |-> JInt(1),
         resolution_m |-> core.resolution_m, state |-> core.state,
         basin |-> core.river_basin, source |-> core.source, access_rights |-> Null,
         quality |-> core.quality,
         centroid |-> JList(<<core.centroid_lon, core.centroid_lat>>),
         file_name |-> core.file_name,
         references |-> JList([a \in 1..Len(core.references) |-> JStr(core.references[a])]),
         s3_key |-> JStr(core.s3_key)]

\* the columns of a feature of FIM_extents.geojson (fim_viz, lines 263-281)
VizProperties ==
    {"feature_id", "site_id", "tier", "event_date", "event_ts", "metadata_url",
     "s3_prefix", "geom_version", "resolution_m", "huc8", "state", "basin", "source",
     "access_rights", "centroid", "bbox"}

viz_feature(rec) ==
    [c \in VizProperties \cup {"geometry"} |->
        CASE c = "geometry" -> Geometry("simplified")
          [] c = "bbox"     -> FromGeometry
          [] c = "huc8"     -> IF "huc8" \in DOMAIN rec THEN rec["huc8"] ELSE Null
          [] OTHER          -> rec[c]]

\* gpd.read_parquet(extents.parquet) / gpd.read_file(FIM_extents.geojson): the
\* rows the builder wrote for n objects, all with a usable geometry
extract_row(source, core) ==
    IF source = "parquet"
    THEN parquet_row(ext_row(core, Geometry("simplified")))
    ELSE viz_feature(viz_fields(core))

read_extract(source, n) == [k \in 1..n |-> extract_row(source, builder_record(k))]

\* the spatial source given to the utility: the extract as the builder wrote
\* it, or one whose last feature has a null or an empty geometry
without_geometry(rows, unusable) ==
    [k \in 1..Len(rows) |->
        IF k = Len(rows) /\ unusable = "null"
        THEN [rows[k] EXCEPT !["geometry"] = Null]
        ELSE IF k = Len(rows) /\ unusable = "empty"
        THEN [rows[k] EXCEPT !["geometry"] = Geometry("empty")]
        ELSE rows[k]]

given_extract(source, n, unusable) == without_geometry(read_extract(source, n), unusable)

\* gdf.geometry.notnull() & ~gdf.geometry.is_empty
usable_geometry(g) == ~IsNone(g) /\ g.v["shape"] # "empty"

\* the records of catalog_core.json of the same builder
catalog_record(source, core) ==
    IF source = "parquet" THEN json_record(core) ELSE viz_fields(core)

read_catalog(source, n) == [k \in 1..n |-> catalog_record(source, builder_record(k))]

\* the catalog document given with --catalog: that of the same run, one of an
\* earlier run that lacks the last record, or one that holds the first
\* record twice, the second time without its raster URL
other_catalog(records, ids) ==
    CASE ids = "same"     -> records
      [] ids = "missing"  -> SubSeq(records, 1, Len(records) - 1)
      [] ids = "repeated" ->
            IF records = <<>> THEN <<>>
            ELSE Append(records, [records[1] EXCEPT !["tif_url"] = Null])

catalog_file(source, n, ids) == other_catalog(read_catalog(source, n), ids)

Columns(rows) == IF rows = <<>> THEN {} ELSE DOMAIN rows[1]

\* gdf[c] = value(row, k)
SetColumn(rows, c, value(_, _)) ==
    [k \in 1..Len(rows) |->
        [x \in (DOMAIN rows[k]) \cup {c} |-> IF x = c THEN value(rows[k], k) ELSE rows[k][x]]]

\* if c not in gdf.columns: gdf[c] = value(row, k)
DefaultColumn(rows, c, value(_, _)) ==
    IF c \in Columns(rows) THEN rows ELSE SetColumn(rows, c, value)

\* the names DataFrame.merge gives a column both frames hold
XName == [tier |-> "tier_x", state |-> "state_x"]
YName == [tier |-> "tier_y", state |-> "state_y"]

\* gdf.merge(cat_df[["id"] + keep].drop_duplicates("id"), on="id", how="left")
merge_catalog(rows, catalog, include) ==
    LET keep    == {include[a] : a \in 1..Len(include)} \cap Columns(catalog)
        overlap == keep \cap Columns(rows)
        added   == keep \ overlap
        match(row) == {j \in 1..Len(catalog) :
                          catalog[j]["id"] = row["id"]
                          /\ \A m \in 1..(j - 1) : catalog[m]["id"] # row["id"]}
        cat(row, c) == IF match(row) = {} THEN NA
                       ELSE catalog[CHOOSE j \in match(row) : TRUE][c]
    IN  [k \in 1..Len(rows) |->
            [x \in ((DOMAIN rows[k]) \ overlap) \cup added
                    \cup {XName[c] : c \in overlap} \cup {YName[c] : c \in overlap} |->
                IF x \in added THEN cat(rows[k], x)
                ELSE IF \E c \in overlap : x = XName[c]
                THEN rows[k][CHOOSE c \in overlap : x = XName[c]]
                ELSE IF \E c \in overlap : x = YName[c]
                THEN cat(rows[k], CHOOSE c \in overlap : x = YName[c])
                ELSE rows[k][x]]]

DateSourceCols ==
    <<"event_date", "date", "eventDate", "flood_date",
      "Date of Flood /Synthetic Flooding Event (return period (years))">>

IsIsoDate(s) ==
    /\ Len(s) = 10 /\ s[5] = "-" /\ s[8] = "-"
    /\ \A k \in {1, 2, 3, 4, 6, 7, 9, 10} : IsDigit(s[k])

\* the event_date of a cell: a compact YYYYMMDD or an ISO date as an ISO
\* date, anything else missing
event_date_of(v) ==
    IF v.t # "str" THEN NA
    ELSE IF Len(Strip(v.v)) = 8 /\ \A k \in 1..8 : IsDigit(Strip(v.v)[k])
    THEN (IF strptime_iso(Strip(v.v)).exc = "none"
          THEN JStr(strptime_iso(Strip(v.v)).val) ELSE NA)
    ELSE IF IsIsoDate(Strip(v.v)) THEN JStr(Strip(v.v))
    ELSE NA

event_ts_of(d) ==
    IF IsNone(d) THEN NA ELSE JInt(DigitsVal(SelectSeq(d.v, LAMBDA c : c # "-")))

\* keep_props of prepare_input_geojson (lines 169-176)
keep_props ==
    <<"feature_id", "site_id", "tier", "event_date", "event_ts", "metadata_url",
      "s3_prefix", "geom_version", "resolution_m", "huc8", "state", "basin", "source",
      "access_rights", "centroid", "bbox">>

SeqSet(s) == {s[a] : a \in 1..Len(s)}

\* prepare_input_geojson on the rows read: the rows of the GeoJSON written,
\* exit 2 for an empty input, or the KeyError of gdf["site"] / gdf["tier"]
\* when the merge renamed the column
prepare_input_geojson(rows0, catalog, merging, include_fields) ==
    IF rows0 = <<>>
    THEN [exc |-> "SystemExit", exit |-> 2, out |-> <<>>, before |-> <<>>, after |-> <<>>]
    ELSE
    LET g1 == DefaultColumn(rows0, "id", LAMBDA r, k : JStr(IntStr(k - 1)))
        g2 == DefaultColumn(g1, "tier", LAMBDA r, k : JStr(Unknown_Tier))
        g3 == DefaultColumn(g2, "site", LAMBDA r, k : r["id"])
        g4 == IF merging /\ include_fields # <<>> /\ "id" \in Columns(catalog)
              THEN merge_catalog(g3, catalog, include_fields) ELSE g3
    IN  IF "site" \notin Columns(g4) \/ "tier" \notin Columns(g4)
        THEN [exc |-> "KeyError", exit |-> 1, out |-> <<>>, before |-> g3, after |-> g4]
        ELSE
        LET g5 == SetColumn(g4, "feature_id", LAMBDA r, k : JStr(PyStr(r["id"])))
            g6 == SetColumn(g5, "site_id", LAMBDA r, k : JStr(PyStr(r["site"])))
            g7 == SetColumn(g6, "tier",
                      LAMBDA r, k : IF IsNone(r["tier"]) THEN JStr(Unknown_Tier)
                                    ELSE JStr(PyStr(r["tier"])))
            srcs == {a \in 1..Len(DateSourceCols) : DateSourceCols[a] \in Columns(g7)}
            src  == DateSourceCols[CHOOSE a \in srcs : \A b \in srcs : a <= b]
            g8 == SetColumn(g7, "event_date",
                      LAMBDA r, k : IF srcs = {} THEN NA ELSE event_date_of(r[src]))
            g9 == SetColumn(g8, "event_ts", LAMBDA r, k : event_ts_of(r["event_date"]))
            g10 == DefaultColumn(g9, "metadata_url", LAMBDA r, k : NA)
            g11 == DefaultColumn(g10, "s3_prefix", LAMBDA r, k : NA)
            g12 == DefaultColumn(g11, "geom_version", LAMBDA r, k : JInt(1))
            g13 == DefaultColumn(g12, "resolution_m", LAMBDA r, k : NA)
            g14 == DefaultColumn(g13, "huc8", LAMBDA r, k : NA)
            g15 == DefaultColumn(g14, "state", LAMBDA r, k : NA)
            g16 == DefaultColumn(g15, "basin", LAMBDA r, k : NA)
            g17 == DefaultColumn(g16, "source", LAMBDA r, k : NA)
            g18 == DefaultColumn(g17, "access_rights", LAMBDA r, k : NA)
            g19 == SelectSeq(g18, LAMBDA r : usable_geometry(r["geometry"]))
            g20 == SetColumn(g19, "centroid", LAMBDA r, k : FromGeometry)
            g21 == SetColumn(g20, "bbox", LAMBDA r, k : FromGeometry)
            extra == {c \in SeqSet(include_fields) :
                         c \in Columns(g21) /\ c \notin SeqSet(keep_props)}
            cols  == {"geometry"} \cup SeqSet(keep_props) \cup extra
        IN  [exc |-> "none", exit |-> 0, before |-> g3, after |-> g4,
             out |-> [k \in 1..Len(g21) |-> [c \in cols |-> g21[k][c]]]]

\* REQUIRED_TILE_FIELDS (lines 195-202)
REQUIRED_TILE_FIELDS ==
    <<"feature_id", "site_id", "tier", "event_date", "event_ts", "metadata_url",
      "s3_prefix", "geom_version", "resolution_m", "huc8", "state", "basin", "source",
      "access_rights", "centroid", "bbox">>

\* the loop of build_mbtiles over REQUIRED_TILE_FIELDS + include_fields:
\* a field is appended the first time it is seen
RECURSIVE keep_loop(_, _, _)
keep_loop(fields, a, keep) ==
    IF a > Len(fields) THEN keep
    ELSE IF fields[a] \in SeqSet(keep) THEN keep_loop(fields, a + 1, keep)
    ELSE keep_loop(fields, a + 1, Append(keep, fields[a]))

tile_whitelist_NoSeen(include_fields) == REQUIRED_TILE_FIELDS \o include_fields
tile_whitelist(include_fields) == keep_loop(REQUIRED_TILE_FIELDS \o include_fields, 1, <<>>)

\* the tippecanoe command: the flags that decide the attributes of the tiles
tippecanoe_cmd(include_fields) ==
    [exclude_all |-> TRUE, include |-> tile_whitelist(include_fields)]

\* which_or_die: the exit status it ends the run with, 0 when it returns
which_or_die_Warn(found) == 0
which_or_die(found) == IF found THEN 0 ELSE 2

\* the include lists of the runs: the documented one, a required field, a
\* repeated field, a field of the catalog the extract may hold too
IncludeChoices ==
    { <<>>,
      <<"tif_url", "json_url">>,
      <<"tier">>,
      <<"bbox", "tif_url", "bbox">>,
      <<"note", "tif_url", "note">>,
      <<"state">> }

\* parse_args: --parquet or --geojson-in (one is required), --catalog,
\* --include, --skip-extract, --s3-bucket with --s3-prefix, --keep-temp
TileArgs ==
    [source : {"parquet", "geojson"}, catalog : BOOLEAN, include : IncludeChoices,
     skip_extract : BOOLEAN, s3 : BOOLEAN, keep_temp : BOOLEAN]

\* the machine the utility runs on
TileEnvs == [tippecanoe : BOOLEAN, mbutil : BOOLEAN, tiles_dir : {"absent", "old"},
             features : 0..MaxFeatures, catalog_ids : {"same", "missing", "repeated"},
             unusable : {"none", "null", "empty"}]

InitTiles ==
    /\ NormIdle /\ MainIdle /\ LoadIdle
    /\ t_args \in TileArgs
    /\ t_env \in TileEnvs
    /\ t_merge = NotMerged
    /\ t_geojson = <<>>
    /\ t_cmd = [exclude_all |-> FALSE, include |-> <<>>]
    /\ t_calls = <<>>
    /\ t_tiles = t_env.tiles_dir
    /\ t_uploaded = FALSE
    /\ t_exit = -1
    /\ t_pc = "prepare"

TileExit(code) == t_exit' = code /\ t_pc' = "exited"

\* the outcome r of prepare_input_geojson: the GeoJSON is written, or the run
\* ends with the status of sys.exit or of the uncaught exception
Prepared(r) ==
    /\ t_merge' = [before |-> r.before, after |-> r.after]
    /\ IF r.exc = "none"
       THEN t_geojson' = r.out /\ t_pc' = "build" /\ UNCHANGED t_exit
       ELSE TileExit(r.exit) /\ UNCHANGED t_geojson

\* main, lines 325-332: prepare_input_geojson
PrepareInput ==
    /\ t_pc = "prepare"
    /\ Prepared(prepare_input_geojson(given_extract(t_args.source, t_env.features,
                                                    t_env.unusable),
                                      catalog_file(t_args.source, t_env.features,
                                                   t_env.catalog_ids),
                                      t_args.catalog, t_args.include))
    /\ UNCHANGED <<t_args, t_env, t_cmd, t_calls, t_tiles, t_uploaded>>
    /\ UNCHANGED <<normVars, mainVars, loadVars>>

\* main, lines 337-344: build_mbtiles, tippecanoe succeeding when it is run
BuildMbtiles ==
    /\ t_pc = "build"
    /\ IF which_or_die(t_env.tippecanoe) # 0
       THEN TileExit(which_or_die(t_env.tippecanoe)) /\ UNCHANGED <<t_cmd, t_calls>>
       ELSE /\ t_cmd' = tippecanoe_cmd(t_args.include)
            /\ t_calls' = Append(t_calls, "tippecanoe")
            /\ t_pc' = IF t_args.skip_extract THEN "cleanup" ELSE "extract"
            /\ UNCHANGED t_exit
    /\ UNCHANGED <<t_args, t_env, t_merge, t_geojson, t_tiles, t_uploaded>>
    /\ UNCHANGED <<normVars, mainVars, loadVars>>

\* build_mbtiles when subprocess.check_call raises CalledProcessError
TippecanoeFails ==
    /\ t_pc = "build"
    /\ which_or_die(t_env.tippecanoe) = 0
    /\ t_cmd' = tippecanoe_cmd(t_args.include)
    /\ t_calls' = Append(t_calls, "tippecanoe")
    /\ TileExit(1)
    /\ UNCHANGED <<t_args, t_env, t_merge, t_geojson, t_tiles, t_uploaded>>
    /\ UNCHANGED <<normVars, mainVars, loadVars>>

\* main, lines 346-347: extract_mbtiles_to_dir, mb-util succeeding when run
ExtractMbtiles ==
    /\ t_pc = "extract"
    /\ IF ~t_env.mbutil
       THEN TileExit(2) /\ UNCHANGED <<t_calls, t_tiles>>
       ELSE /\ t_tiles' = "new"
            /\ t_calls' = Append(t_calls, "mb-util")
            /\ t_pc' = IF t_args.s3 THEN "upload" ELSE "cleanup"
            /\ UNCHANGED t_exit
    /\ UNCHANGED <<t_args, t_env, t_merge, t_geojson, t_cmd, t_uploaded>>
    /\ UNCHANGED <<normVars, mainVars, loadVars>>

\* extract_mbtiles_to_dir when mb-util fails: the old tiles are already removed
MbutilFails ==
    /\ t_pc = "extract"
    /\ t_env.mbutil
    /\ t_tiles' = "absent"
    /\ t_calls' = Append(t_calls, "mb-util")
    /\ TileExit(1)
    /\ UNCHANGED <<t_args, t_env, t_merge, t_geojson, t_cmd, t_uploaded>>
    /\ UNCHANGED <<normVars, mainVars, loadVars>>

\* main, lines 349-355: upload_to_s3
UploadTiles ==
    /\ t_pc = "upload"
    /\ t_uploaded' = TRUE
    /\ t_pc' = "cleanup"
    /\ UNCHANGED <<t_args, t_env, t_merge, t_geojson, t_cmd, t_calls, t_tiles, t_exit>>
    /\ UNCHANGED <<normVars, mainVars, loadVars>>

\* upload_to_s3 when the first put_object raises
UploadTilesFails ==
    /\ t_pc = "upload"
    /\ TileExit(1)
    /\ UNCHANGED <<t_args, t_env, t_merge, t_geojson, t_cmd, t_calls, t_tiles, t_uploaded>>
    /\ UNCHANGED <<normVars, mainVars, loadVars>>

\* main, lines 361-365: the temporary GeoJSON is removed unless --keep-temp
Cleanup ==
    /\ t_pc = "cleanup"
    /\ t_geojson' = IF t_args.keep_temp THEN t_geojson ELSE <<>>
    /\ TileExit(0)
    /\ UNCHANGED <<t_args, t_env, t_merge, t_cmd, t_calls, t_tiles, t_uploaded>>
    /\ UNCHANGED <<normVars, mainVars, loadVars>>

NextTiles ==
    \/ PrepareInput \/ BuildMbtiles \/ TippecanoeFails \/ ExtractMbtiles \/ MbutilFails
    \/ UploadTiles \/ UploadTilesFails \/ Cleanup

SpecTiles == InitTiles /\ [][NextTiles]_vars

\* the two programs that write features: a run of the catalog builder, or a
\* run of the tile utility
InitExtract == Init \/ InitTiles

NextExtract == Next \/ NextTiles

SpecExtract == InitExtract /\ [][NextExtract]_vars

----------------------------------------------------------------------------
(* The in-app builder: build_catalog of src/utilis/s3_catalog.py.  Its state
   is of the same kind as the batch's and is held in the same variables:
   meta_keys is keys, core_rows is records, errors is errors. *)

\* line 108: next((p for p in parts if p.lower().startswith("tier_")), None) or "Unknown_Tier"
s3_tier(parts) ==
    LET hits == {i \in 1..Len(parts) : StartsWith(Lower(parts[i]), <<"t", "i", "e", "r", "_">>)}
    IN  IF hits = {} THEN Unknown_Tier
        ELSE parts[CHOOSE k \in hits : \A j \in hits : k <= j]

\* _extract_ymd: the first eight-digit run of the text, <<>> for None or no match
s3_extract_ymd(s) == IF IsNone(s) THEN <<>> ELSE ymd_search(SearchText(s))

\* lines 127-134: the ISO date from the date field, else from the file name
s3_date_iso(date_raw, file_name) ==
    LET a   == s3_extract_ymd(date_raw)
        ymd == IF a # <<>> THEN a ELSE s3_extract_ymd(PyOr(file_name, JStr(<<>>)))
    IN  IF ymd = <<>> THEN Null
        ELSE LET r == strptime_iso(ymd)
             IN  IF r.exc = "none" THEN JStr(r.val) ELSE Null

\* lines 155-161: references as a list of strings
s3_refs(meta) ==
    LET refs == PyOr(DictGet(meta, "References"), JList(<<>>))
    IN  IF IsStr(refs) THEN <<refs.v>>
        ELSE IF refs.t = "list" THEN [i \in 1..Len(refs.v) |-> PyStr(refs.v[i])]
        ELSE <<PyStr(refs)>>

\* lines 107-187: the record of one parsed document.  meta.get of a top level
\* that is no dict, and ex.get of an Extent that is no dict, raise
\* AttributeError; neither stands inside a try.
s3_record(key, meta) ==
    LET c == s3_catalog_centroid(meta)
    IN  IF c.exc # "none" THEN [exc |-> c.exc, rec |-> NoCore]
        ELSE
        LET parts     == Split(key, "/")
            tier      == s3_tier(parts)
            file_name == PyOr(DictGet(meta, "File_Name"), DictGet(meta, "File Name"))
            date_raw  == PyOr(DictGet(meta, DateAliases[1]), JStr(<<>>))
        IN  [exc |-> "none",
             rec |-> [tier         |-> tier,
                      site         |-> record_site(parts),
                      s3_key       |-> key,
                      file_name    |-> file_name,
                      resolution_m |-> DictGet(meta, "Resolution in meter"),
                      dtype        |-> PyOr(DictGet(meta, "Datatype"), DictGet(meta, "Data type")),
                      state        |-> DictGet(meta, "State"),
                      description  |-> DictGet(meta, "Description"),
                      river_basin  |-> PyOr(DictGet(meta, "River Basin Name"),
                                            DictGet(meta, "River Basin")),
                      source       |-> DictGet(meta, "Source"),
                      date_raw     |-> date_raw,
                      date_ymd     |-> s3_date_iso(date_raw, file_name),
                      quality      |-> PyOr(DictGet(meta, "Quality"), JStr(tier)),
                      references   |-> s3_refs(meta),
                      centroid_lon |-> JFloat(c.lon),
                      centroid_lat |-> JFloat(c.lat),
                      geometry     |-> DictGet(meta, "FIM_Geometry"),
                      extent       |-> DictGet(meta, "Extent")] @@ record_huc(meta)]

\* what get_object may return to the in-app builder: the objects of the batch,
\* a document whose top level is a list, and one whose Extent is a string
AppBodies ==
    Bodies \cup
    { [readable |-> TRUE, meta |-> JList(<<JInt(1)>>)],
      [readable |-> TRUE,
       meta |-> DictOf(<<<<"File_Name", JStr(<<"d", ".", "t", "i", "f">>)>>,
                         <<"Extent", JStr(<<"n", "/", "a">>)>>>>)] }

InitApp ==
    /\ NormIdle
    /\ LoadIdle
    /\ TileIdle
    /\ skip_geometry = FALSE
    /\ no_upload = FALSE
    /\ fetched = <<>>
    /\ meta_keys = <<>>
    /\ idx = 1
    /\ core_rows = <<>>
    /\ ext_rows = <<>>
    /\ errors = <<>>
    /\ seen_ids = <<>>
    /\ geom = Null
    /\ out_gpq = "unknown"
    /\ pub_core = "prev"
    /\ pub_gpq = "prev"
    /\ exit_code = -1
    /\ pc = "app_list"

\* line 102: the listing succeeds
AppList ==
    /\ pc = "app_list"
    /\ \E n \in 0..MaxKeys : meta_keys' = list_meta_keys(Listing(n))
    /\ pc' = "app_loop"
    /\ UNCHANGED <<normVars, loadVars, tileVars, skip_geometry, no_upload, fetched, idx, core_rows, ext_rows,
                   errors, seen_ids, geom, out_gpq, pub_core, pub_gpq, exit_code>>

\* line 102: the listing raises, and so does build_catalog
AppListFails ==
    /\ pc = "app_list"
    /\ pc' = "app_list_raised"
    /\ UNCHANGED <<normVars, loadVars, tileVars, skip_geometry, no_upload, fetched, meta_keys, idx, core_rows,
                   ext_rows, errors, seen_ids, geom, out_gpq, pub_core, pub_gpq, exit_code>>

\* line 70 under lines 111-115: get_object raises a botocore exception, which
\* is no ValueError; it leaves the loop and build_catalog
AppFetchFails ==
    /\ pc = "app_loop"
    /\ idx <= Len(meta_keys)
    /\ pc' = "app_raised"
    /\ UNCHANGED <<normVars, loadVars, tileVars, skip_geometry, no_upload, fetched, meta_keys, idx, core_rows,
                   ext_rows, errors, seen_ids, geom, out_gpq, pub_core, pub_gpq, exit_code>>

\* lines 106-187: one key: fetch and parse (a text that stays unparseable is
\* a ValueError, recorded), normalise (an exception leaves build_catalog),
\* append the record
AppProcessKey ==
    /\ pc = "app_loop"
    /\ idx <= Len(meta_keys)
    /\ \E body \in AppBodies :
         LET key == meta_keys[idx]
             obj == [key |-> key, readable |-> body.readable, meta |-> body.meta]
             r   == s3_record(key, body.meta)
         IN  /\ fetched' = Append(fetched, obj)
             /\ IF ~body.readable
                THEN /\ errors' = Append(errors, <<key, "ValueError">>)
                     /\ idx' = idx + 1
                     /\ UNCHANGED <<core_rows, pc>>
                ELSE IF r.exc # "none"
                THEN /\ pc' = "app_raised"
                     /\ UNCHANGED <<core_rows, errors, idx>>
                ELSE /\ core_rows' = Append(core_rows, r.rec)
                     /\ idx' = idx + 1
                     /\ UNCHANGED <<errors, pc>>
    /\ UNCHANGED <<normVars, loadVars, tileVars, skip_geometry, no_upload, meta_keys, ext_rows, seen_ids,
                   geom, out_gpq, pub_core, pub_gpq, exit_code>>

\* line 189: return {"records": records, "errors": errors}
AppReturn ==
    /\ pc = "app_loop"
    /\ idx > Len(meta_keys)
    /\ pc' = "app_returned"
    /\ UNCHANGED <<normVars, loadVars, tileVars, skip_geometry, no_upload, fetched, meta_keys, idx, core_rows,
                   ext_rows, errors, seen_ids, geom, out_gpq, pub_core, pub_gpq, exit_code>>

NextApp == AppList \/ AppListFails \/ AppFetchFails \/ AppProcessKey \/ AppReturn

SpecApp == InitApp /\ [][NextApp]_vars

----------------------------------------------------------------------------
(* Properties of the batch run (specification Spec) *)

\* the base id normalize_record gave a record, before de-duplication
BaseOf(row) == stable_id(row.tier, row.site, PyOr(row.file_name, JStr(row.s3_key))).val

Rows == 1..Len(core_rows)

\* the records whose base id is that of record r
SameBase(r) == {q \in Rows : BaseOf(core_rows[q]) = BaseOf(core_rows[r])}

\* no record with another base id has a base id that starts with B
NoOtherStartsWith(B) ==
    \A q \in Rows : BaseOf(core_rows[q]) # B => ~StartsWith(BaseOf(core_rows[q]), B)

\* the keys whose object was fetched and could not be parsed
Unreadable == {n \in 1..Len(fetched) : ~fetched[n].readable}

\* no storage call of the loop failed
NoFetchFailure == \A e \in 1..Len(errors) : errors[e][2] \notin StorageFailures

\* C1: after a batch run the ids of the records are pairwise distinct.
C1_IdsPairwiseDistinct ==
    pc = "done" =>
        \A p \in Rows, q \in Rows : p # q => core_rows[p].id # core_rows[q].id

\* C2: when N records share the base id B, and no other record's base id
\* starts with B, the first of them keeps B and the k-th (k >= 2) has exactly
\* B__k, in processing order; their N ids are pairwise distinct.
C2_SuffixesInOrder ==
    \A r \in Rows :
        LET B == BaseOf(core_rows[r])
            k == Cardinality({q \in SameBase(r) : q <= r})
        IN  NoOtherStartsWith(B) =>
              /\ core_rows[r].id = IF k = 1 THEN B ELSE B \o <<"_", "_">> \o IntStr(k)
              /\ \A q \in SameBase(r) : q # r => core_rows[q].id # core_rows[r].id

\* C2 witness: a finished run in which three records share one base id.
C2_ThreeCollide ==
    /\ pc = "done"
    /\ \E r \in Rows :
         NoOtherStartsWith(BaseOf(core_rows[r])) /\ Cardinality(SameBase(r)) = 3

\* C3: at every point of the loop each feature of the extract carries the id
\* of a record of the same run, and a feature is appended with the final
\* (post-dedup) id of the record it was derived from, the last one appended.
C3_NoDanglingFeature ==
    /\ [](\A f \in 1..Len(ext_rows) : \E r \in Rows : core_rows[r].id = ext_rows[f].id)
    /\ [][Len(ext_rows') > Len(ext_rows) =>
            ext_rows'[Len(ext_rows')].id = core_rows'[Len(core_rows')].id]_vars

\* C3 witness: a feature was appended for a record whose id was suffixed.
C3_SuffixedFeature ==
    \E f \in 1..Len(ext_rows) : \E r \in Rows :
        /\ core_rows[r].id = ext_rows[f].id
        /\ core_rows[r].id # BaseOf(core_rows[r])

\* C4: with k of the N listed objects unreadable (and every fetch
\* succeeding), the run attempts all N keys and ends with exactly N-k records,
\* exactly k error entries and exit status zero.
C4_CountsAndExit ==
    (pc = "done" /\ NoFetchFailure) =>
        /\ Len(fetched) = Len(meta_keys)
        /\ Len(core_rows) = Len(meta_keys) - Cardinality(Unreadable)
        /\ Len(errors) = Cardinality(Unreadable)
        /\ exit_code = 0

\* C5: when the run has ended, normally or abnormally, having written an
\* extract of its own, its catalog is published only together with its
\* extract, never with the previous run's.
C5_PublishedTogether ==
    (pc \in {"done", "aborted"} /\ out_gpq = "this" /\ pub_core = "this")
        => pub_gpq = "this"

\* C9: a bad geometry never fails the object: no key has both a record and an
\* error entry, simplify_geojson_lonlat having returned null instead of raising.
C9_GeometryNeverFails ==
    \A e \in 1..Len(errors) : \A r \in Rows : core_rows[r].s3_key # errors[e][1]

\* C10: when a storage call failed at any stage (listing, a fetch, an upload)
\* of a run with uploads enabled, the run ends with a non-zero exit status and
\* has published nothing; without a storage failure a finished run exits zero
\* whatever the parse errors.
C10_StorageFailureAborts ==
    /\ (pc \in {"done", "aborted"} /\ ~no_upload /\ (pc = "aborted" \/ ~NoFetchFailure)) =>
           (exit_code # 0 /\ pub_core = "prev" /\ pub_gpq = "prev")
    /\ (pc = "done" /\ NoFetchFailure) => exit_code = 0

----------------------------------------------------------------------------
(* Properties of normalize_record (specification SpecNorm) *)

Returned == n_pc = "done" /\ n_out.exc = "none"

\* C6: a Tier_4 record has no date, a record of any other tier has no return
\* period.
C6_DateXorReturnPeriod ==
    Returned =>
        /\ n_out.core.tier = Tier_4 => IsNone(n_out.core.date_ymd)
        /\ n_out.core.tier # Tier_4 => IsNone(n_out.core.return_period)

\* C6 witness: a Tier_4 record whose date field holds a valid YYYYMMDD date.
C6_Tier4WithDate ==
    /\ Returned
    /\ n_out.core.tier = Tier_4
    /\ ~IsNone(extract_ymd_iso(n_out.core.date_raw))
    /\ IsNone(n_out.core.date_ymd)

CanonicalTiers == {<<"T", "i", "e", "r", "_", DigitChars[d]>> : d \in 1..10}

\* the claim's tier pattern at position k of segment p: "tier", at most one of
\* "_", " ", "-", one digit, case-insensitive
TierPatternAt(p, k) ==
    /\ k + 3 <= Len(p)
    /\ Lower(SubSeq(p, k, k + 3)) = <<"t", "i", "e", "r">>
    /\ \/ (k + 4 <= Len(p) /\ IsDigit(p[k + 4]))
       \/ (k + 5 <= Len(p) /\ p[k + 4] \in {"_", " ", "-"} /\ IsDigit(p[k + 5]))

\* segment p is the pattern and nothing else
SegmentIsTierPattern(p) ==
    TierPatternAt(p, 1) /\ Len(p) = (IF IsDigit(p[5]) THEN 5 ELSE 6)

\* the pattern occurs somewhere in segment p
SegmentHasTierPattern(p) == \E k \in 1..Len(p) : TierPatternAt(p, k)

\* C7: the tier is Tier_<digit> when a path segment matches the tier pattern
\* and Unknown_Tier otherwise; no other tier value is produced.
C7_TierCanonicalOrUnknown ==
    Returned =>
        LET parts == Split(n_key, "/")
            tier  == n_out.core.tier
        IN  /\ tier \in CanonicalTiers \cup {Unknown_Tier}
            /\ (\E s \in 1..Len(parts) : SegmentIsTierPattern(parts[s]))
                   => tier \in CanonicalTiers
            /\ (\A s \in 1..Len(parts) : ~SegmentHasTierPattern(parts[s]))
                   => tier = Unknown_Tier

\* C8: for every parsed JSON object normalize_record returns a record and
\* raises no exception, whatever the types of its fields.
C8_NeverRaises ==
    (n_pc = "done" /\ n_meta.t = "dict") => n_out.exc = "none"

\* the last "/"-separated segment of a path
LastSegment(p) == LET parts == Split(p, "/") IN parts[Len(parts)]

\* a name without its extension: everything before the last "." that follows
\* at least one character other than "."
WithoutExtension(name) ==
    LET dots == {k \in 2..Len(name) :
                    name[k] = "." /\ \E j \in 1..(k - 1) : name[j] # "."}
    IN  IF dots = {} THEN name
        ELSE SubSeq(name, 1, (CHOOSE k \in dots : \A j \in dots : j <= k) - 1)

\* the key of file f stored in the folder of key k
SiblingKey(k, f) == SubSeq(k, 1, Len(k) - Len(LastSegment(k))) \o f

\* C14: the id is tier/site/<basename of the file name without extension>
\* (of the key when there is no file name), the site is the second-to-last
\* segment of the key (Unknown_Site for a one-segment key), tif_url is the URL
\* of the file name in the folder of the key (null without a file name) and
\* json_url is the URL of the key.
C14_IdSiteAndUrls ==
    Returned =>
        LET core  == n_out.core
            parts == Split(n_key, "/")
            F     == core.file_name
            named == Truthy(F)
            from  == IF named THEN F.v ELSE n_key
        IN  /\ core.id = core.tier \o <<"/">> \o core.site \o <<"/">>
                            \o WithoutExtension(LastSegment(from))
            /\ core.site = IF Len(parts) >= 2 THEN parts[Len(parts) - 1]
                                               ELSE Unknown_Site
            /\ core.tif_url = IF named
                               THEN JStr(s3_http_url(DEFAULT_BUCKET, SiblingKey(n_key, F.v)))
                               ELSE Null
            /\ core.json_url = s3_http_url(DEFAULT_BUCKET, n_key)
            /\ core.s3_key = n_key

\* C18: return_period is null or a strictly positive integer.
C18_ReturnPeriodPositive ==
    Returned =>
        \/ IsNone(n_out.core.return_period)
        \/ (n_out.core.return_period.t = "int" /\ n_out.core.return_period.v > 0)

\* a value float() accepts: a number, or the text of one
Convertible(x) == x.t \in {"int", "float", "bool"} \/ (x.t = "str" /\ IsIntText(x.v))

\* the centroid the claim prescribes for a metadata dict, in halves
ClaimedCentroid(meta) ==
    LET c  == DictGet(meta, CentroidKey)
        ex == DictGet(meta, "Extent")
        num(x) == py_float(x).val
    IN  IF c.t = "list" /\ Len(c.v) >= 2 /\ Convertible(c.v[1]) /\ Convertible(c.v[2])
        THEN <<num(c.v[1]), num(c.v[2])>>
        ELSE IF ex.t = "dict"
                 /\ \A k \in 1..4 : ExtentKeys[k] \in DOMAIN ex.v
                                         /\ Convertible(ex.v[ExtentKeys[k]])
        THEN <<(num(ex.v["xmin"]) + num(ex.v["xmax"])) \div 2,
               (num(ex.v["ymin"]) + num(ex.v["ymax"])) \div 2>>
        ELSE <<0, 0>>

\* C17: for every parsed metadata object the centroid is a pair of numbers:
\* the explicit [lon, lat] pair when it is a list of two or more values both
\* convertible, else the midpoint of the extent when its four bounds are
\* present and convertible, else (0.0, 0.0); in the catalog builder and in
\* the viewer's build_catalog alike.
C17_CentroidTotal ==
    /\ Returned =>
          /\ n_out.core.centroid_lon = JFloat(ClaimedCentroid(n_meta)[1])
          /\ n_out.core.centroid_lat = JFloat(ClaimedCentroid(n_meta)[2])
    /\ (v_pc = "done" /\ n_meta.t = "dict") =>
          /\ v_out.exc = "none"
          /\ <<v_out.lon, v_out.lat>> = ClaimedCentroid(n_meta)

----------------------------------------------------------------------------
(* Properties of the text loader (specification SpecLoad) *)

MembersOf(doc) == {doc.members[a] : a \in 1..Len(doc.members)}

\* the document is strictly valid JSON as composed
StrictlyValid(doc) ==
    /\ PreValid[doc.pre] /\ PostValid[doc.post]
    /\ \A m \in MembersOf(doc) : MemberKinds[m] = "valid"

\* C11: for a text that is already strictly valid JSON, lenient_json_load
\* returns the value the strict parse of the unmodified text returns (and so
\* does load_with_context), also when strings hold ",]", "//", "/* */", "NaN"
\* or smart quotes.
C11_RepairKeepsValidJson ==
    /\ (q_pc = "done" /\ StrictlyValid(l_doc) /\ json_loads(l_raw).ok) =>
           (q_out.ok /\ q_out.val = json_loads(l_raw).val)
    /\ (l_pc = "done" /\ StrictlyValid(l_doc) /\ json_loads(l_raw).ok) =>
           (l_out.exc = "none" /\ l_out.val = json_loads(l_raw).val)

\* the only departures from strict JSON are bare leading-zero HUC numbers
OnlyHucDefect(doc) ==
    /\ PreValid[doc.pre] /\ PostValid[doc.post]
    /\ \A m \in MembersOf(doc) : MemberKinds[m] \in {"valid", "huc0"}
    /\ \E m \in MembersOf(doc) : MemberKinds[m] = "huc0"

\* C12: a document whose only defect is a bare leading-zero number under a
\* HUC key loads, the value under that key is the string of the same digits,
\* and the record's field of every such HUC level is that string.
C12_LeadingZeroHucKept ==
    (l_pc = "done" /\ OnlyHucDefect(l_doc)) =>
        /\ l_out.exc = "none"
        /\ l_out.val.t = "dict"
        /\ l_rec.exc = "none"
        /\ \A m \in MembersOf(l_doc) : MemberKinds[m] = "huc0" =>
               /\ MemberHuc[m].key \in DOMAIN l_out.val.v
               /\ l_out.val.v[MemberHuc[m].key] = JStr(MemberHuc[m].digits)
               /\ MemberHuc[m].field \in DOMAIN l_rec.core
               /\ l_rec.core[MemberHuc[m].field] = JStr(MemberHuc[m].digits)

\* lines a..b of the text, numbered
NumberedLines(raw, a, b) ==
    [k \in 1..(IF b >= a THEN b - a + 1 ELSE 0) |->
        [no |-> a + k - 1, text |-> splitlines(raw)[a + k - 1]]]

\* C13: when the strict and the repaired parse both fail, the error reports
\* the line and column of the strict parse error on the raw text and the raw
\* lines from 2 before to 2 after that line, clipped to the document.
C13_ReportsOriginalError ==
    (l_pc = "done" /\ l_out.exc = "ValueError") =>
        LET strict == json_loads(l_raw)
            L      == lineno(l_raw, strict.end)
            n      == Len(splitlines(l_raw))
        IN  /\ l_out.lineno = L
            /\ l_out.colno = colno(l_raw, strict.end)
            /\ l_out.ctx = NumberedLines(l_raw, IF L - 2 < 1 THEN 1 ELSE L - 2,
                                                IF L + 2 > n THEN n ELSE L + 2)

\* the text holds the fragment somewhere
HasText(s, part) == \E i \in 1..Len(s) : HasAt(s, i, part)

\* the members whose string value holds NaN or -Infinity, and the text of the
\* member whose value is the bare token NaN, before and after the repair
NanStringMembers == {6, 14}
NanBareText == <<"\"", "v", "\"", ":", " ", "N", "a", "N">>
NanBareRepaired == <<"\"", "v", "\"", ":", " ", "n", "u", "l", "l">>

\* C21: the NaN/Infinity step replaces a bare token by null and leaves a
\* string value holding the same characters as it was before the step.
C21_NanOnlyOutsideStrings ==
    q_pc = "done" =>
        /\ \A m \in NanStringMembers :
               HasText(q_steps[6], MemberTexts[m]) => HasText(q_steps[7], MemberTexts[m])
        /\ HasText(q_steps[6], NanBareText) =>
               HasText(q_steps[7], NanBareRepaired)

\* the members whose string value holds "//": after a comma, and in a URL
SlashStringMembers == {5, 15}
CommentText == <<"/", "/", " ", "c">>

\* C22: line-comment removal deletes the comment at the start of a line and
\* leaves every string value holding "//" as it was before the step.
C22_LineCommentsOutsideStrings ==
    q_pc = "done" =>
        /\ \A m \in SlashStringMembers :
               HasText(q_steps[2], MemberTexts[m]) => HasText(q_steps[3], MemberTexts[m])
        /\ l_doc.pre = 3 => ~HasText(q_steps[3], CommentText)

\* C23: every repair step applied twice gives what it gives applied once, on
\* the raw text and on the text the step receives in lenient_json_load, and
\* the text parsed is the result of the seven steps in their order.
C23_StepsIdempotent ==
    q_pc = "done" =>
        /\ \A k \in 1..RepairSteps :
               /\ RepairStep(k, RepairStep(k, l_raw)) = RepairStep(k, l_raw)
               /\ RepairStep(k, q_steps[k]) = q_steps[k]
        /\ q_out = json_loads(q_steps[RepairSteps])

----------------------------------------------------------------------------
(* Properties of the tile utility (specification SpecTiles) *)

\* fimextent.geojson has been written and not yet removed
GeojsonWritten == t_geojson # <<>>

\* C15: every feature prepare_input_geojson writes carries as feature_id the
\* id of the catalog record it was derived from, for the GeoParquet extract
\* of src/build_catalog.py and the GeoJSON extract of src/fim_viz alike.
C15_FeatureIdJoinsCatalog ==
    GeojsonWritten =>
        /\ Len(t_geojson) <= t_env.features
        /\ \A k \in 1..Len(t_geojson) :
               t_geojson[k]["feature_id"] = read_catalog(t_args.source, t_env.features)[k]["id"]

\* C16: without tippecanoe the run ends with a non-zero status, runs no
\* subprocess, uploads nothing and leaves the tiles directory alone; without
\* mb-util (and extraction asked for) it ends non-zero before the existing
\* tiles directory is deleted.
C16_MissingBinaryIsFatal ==
    /\ ~t_env.tippecanoe =>
          /\ t_calls = <<>> /\ ~t_uploaded /\ t_tiles = t_env.tiles_dir
          /\ t_pc \in {"prepare", "build", "exited"}
          /\ t_pc = "exited" => t_exit # 0
    /\ (~t_env.mbutil /\ ~t_args.skip_extract) =>
          /\ "mb-util" \notin SeqSet(t_calls) /\ ~t_uploaded /\ t_tiles = t_env.tiles_dir
          /\ t_pc \in {"prepare", "build", "extract", "exited"}
          /\ t_pc = "exited" => t_exit # 0

\* C16 witness: the input was prepared, tippecanoe is missing and the run has
\* ended with status 2 where tiles of an earlier run exist.
C16_EndedWithoutTippecanoe ==
    /\ ~t_env.tippecanoe /\ t_env.mbutil /\ t_args.s3
    /\ GeojsonWritten /\ t_env.tiles_dir = "old"
    /\ t_pc = "exited" /\ t_exit = 2

\* the k-th smallest element of a set of positions
KthOf(P, k) == CHOOSE a \in P : Cardinality({b \in P : b < a}) = k - 1

\* the caller's extra fields: those that are no required field, each at its
\* first occurrence, in order
FirstExtras(inc) ==
    LET P == {a \in 1..Len(inc) :
                 inc[a] \notin SeqSet(REQUIRED_TILE_FIELDS) /\ \A b \in 1..(a - 1) : inc[b] # inc[a]}
    IN  [k \in 1..Cardinality(P) |-> inc[KthOf(P, k)]]

\* C19: the whitelist handed to tippecanoe is the required fields followed by
\* the caller's extra fields, each field once in first-occurrence order, with
\* every other attribute excluded; and the GeoJSON written holds every
\* required field whatever the include list.
C19_WhitelistExact ==
    /\ "tippecanoe" \in SeqSet(t_calls) =>
          /\ t_cmd.exclude_all
          /\ t_cmd.include = REQUIRED_TILE_FIELDS \o FirstExtras(t_args.include)
    /\ GeojsonWritten =>
          \A k \in 1..Len(t_geojson) : SeqSet(REQUIRED_TILE_FIELDS) \subseteq DOMAIN t_geojson[k]

\* C19 witness: tippecanoe has run on a written GeoJSON for an include list
\* that repeats a field and names a required one.
C19_RepeatedFieldsTiled ==
    /\ "tippecanoe" \in SeqSet(t_calls)
    /\ GeojsonWritten
    /\ t_args.catalog
    /\ \E a, b \in 1..Len(t_args.include) : a < b /\ t_args.include[a] = t_args.include[b]
    /\ \E a \in 1..Len(t_args.include) : t_args.include[a] \in SeqSet(REQUIRED_TILE_FIELDS)
    /\ Len(t_cmd.include) = Len(REQUIRED_TILE_FIELDS) + 1

\* the catalog document of the run
GivenCatalog == catalog_file(t_args.source, t_env.features, t_env.catalog_ids)

\* prepare_input_geojson has merged a catalog into the spatial source
CatalogMerged ==
    /\ t_pc # "prepare" /\ t_merge.before # <<>>
    /\ t_args.catalog /\ t_args.include # <<>> /\ "id" \in Columns(GivenCatalog)

\* C24: the merge is a left join on id: the frame after it has the rows of
\* the frame before it, one for one and in order, with their columns
\* unchanged, whatever ids the catalog repeats or lacks, and the columns
\* added are the requested fields that the catalog holds.
C24_MergeIsLeftJoin ==
    CatalogMerged =>
        /\ Len(t_merge.after) = Len(t_merge.before)
        /\ \A k \in 1..Len(t_merge.before) :
              /\ DOMAIN t_merge.after[k] =
                     (DOMAIN t_merge.before[k])
                         \cup (SeqSet(t_args.include) \cap Columns(GivenCatalog))
              /\ \A c \in DOMAIN t_merge.before[k] :
                     t_merge.after[k][c] = t_merge.before[k][c]

----------------------------------------------------------------------------
(* Properties of the features written (specification SpecExtract) *)

\* the geometry the object of record r held
SourceGeometry(r) ==
    LET n == CHOOSE n \in 1..Len(fetched) : fetched[n].key = core_rows[r].s3_key
    IN  fetched[n].meta.v["FIM_Geometry"]

\* the records whose source geometry is not null and survives simplification
UsableRecords ==
    {r \in Rows : ~IsNone(SourceGeometry(r)) /\ SourceGeometry(r).v["shape"] = "ok"}

\* a geometry that is neither null nor empty
NonEmptyGeometry(g) == ~IsNone(g) /\ g.t = "dict" /\ g.v["shape"] \in {"ok", "simplified"}

\* C25: every feature of the extract and of the tiling input has a geometry
\* that is neither null nor empty; after the loop the extract holds, in the
\* order of the records, one feature for each record whose source geometry
\* is not null and survived simplification and no other feature, and none at
\* all with --skip-geometry.
C25_FeaturesHaveGeometry ==
    /\ \A f \in 1..Len(ext_rows) : NonEmptyGeometry(ext_rows[f].geometry)
    /\ \A f \in 1..Len(t_geojson) : NonEmptyGeometry(t_geojson[f]["geometry"])
    /\ pc \in {"write_gpq", "upload_core", "upload_gpq", "done"} =>
          /\ Len(ext_rows) = IF skip_geometry THEN 0 ELSE Cardinality(UsableRecords)
          /\ \A f \in 1..Len(ext_rows) :
                \E r \in UsableRecords :
                    /\ Cardinality({q \in UsableRecords : q < r}) = f - 1
                    /\ ext_rows[f] = ext_row(core_rows[r], ext_rows[f].geometry)

\* C25 witness: a finished run with geometry whose three records are one with
\* a usable geometry, one with a null geometry and one whose geometry did not
\* survive simplification, and whose extract holds the one feature.
C25_OneOfThreeUsable ==
    /\ pc = "done" /\ ~skip_geometry
    /\ Len(core_rows) = 3 /\ Len(ext_rows) = 1
    /\ \E r \in Rows : IsNone(SourceGeometry(r))
    /\ \E r \in Rows : ~IsNone(SourceGeometry(r)) /\ SourceGeometry(r).v["shape"] \in {"empty", "geos_error"}

----------------------------------------------------------------------------
(* The batch as a function of the listing (specification Spec) *)

\* how many of the records have base id b
CountBase(records, b) ==
    Cardinality({q \in 1..Len(records) : BaseOf(records[q]) = b})

\* what lines 240-264 leave in core_rows and errors after the first n objects
\* fetched, computed from the objects alone, in the order they were listed
RECURSIVE Replay(_, _)
Replay(objs, n) ==
    IF n = 0 THEN [records |-> <<>>, errors |-> <<>>]
    ELSE LET prev == Replay(objs, n - 1)
             o    == objs[n]
             m    == load_with_context(o)
             r    == normalize_record(DEFAULT_BUCKET, o.key, m.val)
         IN  IF m.exc # "none"
             THEN [prev EXCEPT !.errors = Append(@, <<o.key, m.exc>>)]
             ELSE IF r.exc # "none"
             THEN [prev EXCEPT !.errors = Append(@, <<o.key, r.exc>>)]
             ELSE
             LET k    == CountBase(prev.records, r.core.id)
                 rid  == IF k = 0 THEN r.core.id
                         ELSE r.core.id \o <<"_", "_">> \o IntStr(k + 1)
                 simp == simplify_geojson_lonlat(r.geom, SIMPLIFY_M)
             IN  [records |-> Append(prev.records, [r.core EXCEPT !.id = rid]),
                  errors  |-> IF ~skip_geometry /\ Truthy(r.geom) /\ simp.exc # "none"
                              THEN Append(prev.errors, <<o.key, simp.exc>>)
                              ELSE prev.errors]

\* the positions in the listing of the keys of the records
ListedAt(r) == {n \in 1..Len(meta_keys) : meta_keys[n] = core_rows[r].s3_key}

\* C26: the records and the errors of a run are a function of the ordered
\* listing and of the contents of its objects: at every point between two
\* keys the records are those that the objects fetched so far give when they
\* are taken in listing order, the first object of a base id keeping it
\* unsuffixed, and so are the errors of a run in which no fetch failed; the
\* records stand in the order in which their keys were listed.
C26_FunctionOfListing ==
    /\ core_rows = Replay(fetched, Len(fetched)).records
    /\ (pc # "geom" /\ NoFetchFailure) =>
           errors = Replay(fetched, Len(fetched)).errors
    /\ \A n, j \in 1..Len(fetched) :
           n < j => \E a, b \in 1..Len(meta_keys) :
                       a < b /\ meta_keys[a] = fetched[n].key /\ meta_keys[b] = fetched[j].key
    /\ \A r, q \in Rows :
           r < q => \A a \in ListedAt(r), b \in ListedAt(q) : a < b

\* C26 witness: a finished run without fetch failure whose listing gave three
\* records, two of them with the same base id, and an error.
C26_CollisionAndError ==
    /\ pc = "done" /\ NoFetchFailure
    /\ Len(core_rows) = 3 /\ errors # <<>>
    /\ \E r, q \in Rows : r < q /\ BaseOf(core_rows[r]) = BaseOf(core_rows[q])

----------------------------------------------------------------------------
(* Properties of the in-app builder (specification SpecApp) *)

\* the keys of the listing that have a record, and those that have an error
RecordKeys == {core_rows[r].s3_key : r \in Rows}
ErrorKeys  == {errors[e][1] : e \in 1..Len(errors)}

\* C27: once the listing is there, no failure on an object leaves
\* build_catalog: the call does not raise, and when it has returned every
\* listed key has a record or an error entry.
C27_EveryFailureRecorded ==
    /\ pc # "app_raised"
    /\ pc = "app_returned" =>
          /\ SeqSet(meta_keys) = RecordKeys \cup ErrorKeys
          /\ Len(core_rows) + Len(errors) = Len(meta_keys)

----------------------------------------------------------------------------
(* Properties of the alias resolution (specification SpecNorm) *)

\* the value of the first of the names that the document holds with a value
\* other than null, Null when there is none
RECURSIVE FirstAlias(_, _)
FirstAlias(meta, names) ==
    IF names = <<>> THEN Null
    ELSE IF Head(names) \in DOMAIN meta.v /\ meta.v[Head(names)] # Null
    THEN meta.v[Head(names)]
    ELSE FirstAlias(meta, Tail(names))

\* a string cut to its first 2000 characters, any other value as it is
Bounded(v) ==
    IF v.t = "str" /\ Len(v.v) > 2000 THEN JStr([i \in 1..2000 |-> v.v[i]]) ELSE v

\* the fields of the record that are resolved through aliases, and the
\* aliases of each in their order of priority
AliasesOf ==
    [file_name    |-> <<"File_Name", "File Name", "File name">>,
     date_raw     |-> <<"Date of Flood /Synthetic Flooding Event (return period (years))",
                        "Date of Flood", "Date">>,
     resolution_m |-> <<"Resolution in meter", "Resolution (m)", "resolution_m">>,
     state        |-> <<"State">>,
     description  |-> <<"Description">>,
     river_basin  |-> <<"River Basin Name", "River Basin">>,
     source       |-> <<"Source">>]

\* C28: each field resolved through aliases has the value of the first alias
\* present with a value other than null, an empty string included, cut to
\* 2000 characters when it is a string and unchanged otherwise; quality is the
\* Quality value when that is truthy and the tier otherwise.
C28_FirstAliasWins ==
    Returned =>
        /\ \A f \in DOMAIN AliasesOf :
               n_out.core[f] = Bounded(FirstAlias(n_meta, AliasesOf[f]))
        /\ n_out.core.quality =
               IF Truthy(FirstAlias(n_meta, <<"Quality">>))
               THEN Bounded(FirstAlias(n_meta, <<"Quality">>))
               ELSE JStr(n_out.core.tier)

\* C28 witness: a record of a document that holds two aliases of the file
\* name with different values, a later alias of the date and of the
\* resolution before an earlier one, a description of 2001 characters and a
\* resolution that is a number.
C28_AliasesAndLongText ==
    /\ Returned
    /\ Present(n_meta, "File_Name") /\ Present(n_meta, "File Name")
    /\ n_meta.v["File_Name"] # n_meta.v["File Name"]
    /\ Len(n_meta.v["Description"].v) = 2001 /\ Len(n_out.core.description.v) = 2000
    /\ n_out.core.resolution_m = JInt(30)
    /\ n_out.core.date_raw = JStr(<<"5", " ", "y", "r">>)

\* a record whose first present alias of the file name is the empty string
C28_EmptyCountsAsPresent ==
    /\ Returned
    /\ Present(n_meta, "File_Name") /\ n_meta.v["File_Name"] = JStr(<<>>)
    /\ Present(n_meta, "File Name")
    /\ n_out.core.file_name = JStr(<<>>)

----------------------------------------------------------------------------
(* Properties of the accounting of the batch loop (specification Spec) *)

\* how many records, and how many error entries, key k has
RecordsOf(k) == Cardinality({r \in Rows : core_rows[r].s3_key = k})
ErrorsOf(k)  == Cardinality({e \in 1..Len(errors) : errors[e][1] = k})

\* C29: after the loop every listed key has one record or one error entry
\* and not both, so the records and the errors together are as many as the
\* keys listed.
C29_EachKeyOnce ==
    pc \in {"write_gpq", "upload_core", "upload_gpq", "done"} =>
        /\ \A n \in 1..Len(meta_keys) :
               RecordsOf(meta_keys[n]) + ErrorsOf(meta_keys[n]) = 1
        /\ Len(core_rows) + Len(errors) = Len(meta_keys)

----------------------------------------------------------------------------
(* Properties of the upload of the extract (specification Spec) *)

\* C30: the extract that a run publishes is the one it wrote itself: what is
\* published is the earlier object or this run's file, never a file an earlier
\* run left at the local path; a run without features publishes no extract,
\* and neither does a run with --skip-geometry.
C30_OnlyOwnExtractUploaded ==
    /\ pub_gpq \in {"prev", "this"}
    /\ pub_gpq = "this" => (~skip_geometry /\ ext_rows # <<>> /\ ~no_upload)
    /\ skip_geometry => pub_gpq = "prev"

====
